---------------------------- MODULE Spec2Model ----------------------------
(***************************************************************************)
(* The unidirectional state-management runtime of tgpt (src/src/tca):      *)
(* StoreEngine::run / internal_send / handle, the Effect type and its map, *)
(* the ActionSender implementations (EventSenderHolder, ActionMapper) and  *)
(* the tokio unbounded channel that carries StoreEvent values.             *)
(*                                                                         *)
(* An Action is a sequence of strings: the path of enum constructors from  *)
(* the root action type down to the leaf variant, e.g.                     *)
(* <<"Child", "Increment">> for Action::Child(child::Action::Increment).   *)
(* Wrapping an action in an enum constructor prepends the constructor.     *)
(***************************************************************************)
EXTENDS Integers, Sequences, FiniteSets, TLC

(***************************************************************************)
(* Bounds of the model.                                                    *)
(***************************************************************************)
\* number of sends made from outside the run loop, through the engine's own
\* send or through a scoped handle
MaxSends == 2
\* number of results the terminal event stream yields
MaxInputs == 1
\* the counter of the reducer used to drive the engine wraps at this value
CountMod == 3

\* number of actions sent to the chat and conversation features
MaxFeatureSends == 4
\* bound on the chunks one completion stream delivers
MaxChunks == 2
\* number of terminal events dispatched to the entry feature
MaxEvents == 4
\* number of times the rendered dimensions of the scroll view change
MaxResizes == 1
\* number of ScrollOffsetChanged actions sent to the scroll view
MaxScrolls == 1
\* largest height of a frame and of the content of the scroll view
MaxHeight == 1
\* largest number of items of a list
MaxItems == 2
\* number of key presses handed to a feature's reducer
MaxKeys == 4
\* the Reload actions a conversation list receives
MaxReloads == 2
\* largest number of lines a committed message is rendered to
MaxLines == 1
\* largest number of messages a conversation commits
MaxCommits == 2
\* largest column the cursor is moved to
MaxCol == 1

\* the two tasks that may call run on the shared engine
Runners == {1, 2}

\* terminal events the stream can yield as Some(Ok(evt))
InputEvents == {"+"}

\* the step of a job script at which the job awaits external work
Await == <<"await">>

(***************************************************************************)
(* Effect (effect.rs).  job is the script of the boxed job: the actions it *)
(* sends through the sender it is given, with its awaits in between.  maps *)
(* lists the translate functions of the ActionMapper layers the job builds *)
(* around the sender it receives, innermost first.                         *)
(***************************************************************************)
EffectNone == [kind |-> "None", action |-> <<>>, job |-> <<>>, maps |-> <<>>]

EffectQuit == [kind |-> "Quit", action |-> <<>>, job |-> <<>>, maps |-> <<>>]

EffectSend(action) == [kind |-> "Send", action |-> action, job |-> <<>>, maps |-> <<>>]

EffectRun(job) == [kind |-> "Async", action |-> <<>>, job |-> job, maps |-> <<>>]

\* an enum constructor used as translate function: Action::Tag(child)
Wrap(tag, action) == <<tag>> \o action

\* a buggy Effect::map: Send is translated, but the Async job is handed the
\* parent's sender as it is
EffectMapNoRewrap(effect, tag) ==
    CASE effect.kind = "None" -> EffectNone
      [] effect.kind = "Quit" -> EffectQuit
      [] effect.kind = "Send" -> EffectSend(Wrap(tag, effect.action))
      [] effect.kind = "Async" -> effect

\* Effect::map
EffectMap(effect, tag) ==
    CASE effect.kind = "None" -> EffectNone
      [] effect.kind = "Quit" -> EffectQuit
      [] effect.kind = "Send" -> EffectSend(Wrap(tag, effect.action))
      [] effect.kind = "Async" ->
            [effect EXCEPT !.maps = Append(effect.maps, tag)]

(***************************************************************************)
(* ActionSender.  A sender is the list of translate functions of the       *)
(* ActionMapper layers in front of the engine's EventSenderHolder, the     *)
(* layer the caller talks to first.  The result is the sequence of actions *)
(* that reach EventSenderHolder::send.                                     *)
(***************************************************************************)
\* a buggy ActionMapper::send: forwards the child action untranslated
RECURSIVE ActionMapperSendRaw(_, _)
ActionMapperSendRaw(maps, action) ==
    IF maps = <<>> THEN <<action>>
    ELSE ActionMapperSendRaw(Tail(maps), action)

\* a buggy ActionMapper::send: translates with the outermost layer only and
\* hands the result straight to the engine
ActionMapperSendFlat(maps, action) ==
    IF maps = <<>> THEN <<action>>
    ELSE << Wrap(Head(maps), action) >>

\* ActionMapper::send: mapped = (self.map)(action); self.parent.send(mapped)
RECURSIVE ActionMapperSend(_, _)
ActionMapperSend(maps, action) ==
    IF maps = <<>> THEN <<action>>
    ELSE ActionMapperSend(Tail(maps), Wrap(Head(maps), action))

(***************************************************************************)
(* The reducers that drive the engine: a child feature (a wrapping         *)
(* counter) embedded in a root feature through Action::Child, the way      *)
(* every feature of the application embeds its children.                   *)
(***************************************************************************)
\* grandchild feature: a reducer over the unit state, embedded in the child
\* through Action::Grand
grandReduce(action) ==
    CASE action = <<"Poke">> -> [effect |-> EffectSend(<<"Done">>)]
      [] action = <<"Done">> ->
            [effect |-> EffectRun(<< <<"Tick">>, Await, <<"Tock">> >>)]
      [] OTHER -> [effect |-> EffectNone]

\* child feature: implementation of Reducer::reduce on the counter
childReduce(count, action) ==
    CASE action = <<"Increment">> ->
            [state |-> (count + 1) % CountMod, effect |-> EffectNone]
      [] action = <<"Ping">> ->
            [state |-> count, effect |-> EffectNone]
      [] action = <<"Up">> ->
            [state |-> (count + 1) % CountMod, effect |-> EffectSend(<<"Down">>)]
      [] action = <<"Down">> ->
            [state |-> (count + CountMod - 1) % CountMod, effect |-> EffectNone]
      [] action = <<"Fetch">> ->
            [state |-> count,
             effect |-> EffectRun(<< <<"Increment">>, Await, <<"Ping">> >>)]
      [] action = <<"Exit">> ->
            [state |-> count, effect |-> EffectQuit]
      [] Len(action) = 2 /\ Head(action) = "Event" ->
            [state |-> count, effect |-> EffectSend(<<"Increment">>)]
      [] Len(action) = 2 /\ Head(action) = "Grand" ->
            [state |-> count,
             effect |-> EffectMap(grandReduce(Tail(action)).effect, "Grand")]
      [] OTHER -> [state |-> count, effect |-> EffectNone]

\* the step of a job script at which the job awaits the answer to its
\* completion request
Request(feature) == <<"request", feature>>

\* the step of a job script at which the job awaits the next item of the
\* completion stream, having received chunks of them
Stream(feature, chunks) ==
    <<"stream", feature>> \o [i \in 1..chunks |-> "chunk"]

\* the steps of a job script that are sends
IsSend(step) == step[1] \notin {"await", "request", "stream"}

\* the job of a chat-completion request, up to its first await: nothing for
\* an empty message, otherwise BeganStreaming, CommitMessage(user_message)
\* and send_message_streaming(message).await
StreamJob(feature, message) ==
    IF message = "" THEN <<>>
    ELSE << <<"BeganStreaming">>, <<"CommitMessage">>, Request(feature) >>

\* TooltipKind
Tooltips == { "Success", "Error" }

\* conversation::Feature::reduce on State.tooltip: the arms ScheduleTooltip
\* and SetTooltip, and Delegated(_) => Effect::none()
conversationReduce(tooltip, action) ==
    CASE action[1] = "ScheduleTooltip" ->
            [state |-> tooltip,
             effect |-> EffectRun(<< <<"SetTooltip", action[2]>>, Await,
                                     <<"SetTooltip", "None">> >>)]
      [] action[1] = "SetTooltip" ->
            [state |-> action[2], effect |-> EffectNone]
      [] OTHER -> [state |-> tooltip, effect |-> EffectNone]

\* textfield::Feature::reduce on the text of the textarea, "" or "m".  The
\* Vim mode is not tracked: a character key is taken as typed in Insert mode
\* (the text is there, Delegated::Updated), Enter as pressed in Normal mode
\* (Transition::Nop, Delegated::Commit).
textfieldReduce(textarea, action) ==
    CASE action = <<"Event", "x">> ->
            [state |-> "m", effect |-> EffectSend(<<"Delegated", "Updated">>)]
      [] action = <<"Event", "Enter">> ->
            [state |-> textarea,
             effect |-> EffectSend(<<"Delegated", "Commit">>)]
      [] OTHER -> [state |-> textarea, effect |-> EffectNone]

\* a chat reducer that starts a job on Commit whether or not one is streaming
chatReduceAlways(st, action) ==
    CASE action[1] = "Delegated" -> [state |-> st, effect |-> EffectNone]
      [] action = <<"CommitMessage">> ->
            [state |-> [st EXCEPT !.partial = FALSE, !.history = @ + 1],
             effect |-> EffectNone]
      [] action = <<"UpdatePartial">> ->
            [state |-> [st EXCEPT !.partial = TRUE], effect |-> EffectNone]
      [] action = <<"TextField", "Delegated", "Noop">> ->
            [state |-> st, effect |-> EffectSend(<<"Delegated", "Noop">>)]
      [] action = <<"TextField", "Delegated", "Commit">> ->
            [state |-> [st EXCEPT !.textarea = ""],
             effect |-> EffectRun(StreamJob("chat", st.textarea))]
      [] action[1] = "TextField" /\ action[2] = "Delegated" ->
            [state |-> st, effect |-> EffectNone]
      [] action = <<"BeganStreaming">> ->
            [state |-> [st EXCEPT !.is_streaming = TRUE], effect |-> EffectNone]
      [] action = <<"StoppedStreaming">> ->
            [state |-> [st EXCEPT !.is_streaming = FALSE],
             effect |-> EffectNone]
      [] action[1] = "TextField" ->
            LET r == textfieldReduce(st.textarea, Tail(action))
            IN  [state |-> [st EXCEPT !.textarea = r.state],
                 effect |-> EffectMap(r.effect, "TextField")]
      [] action[1] = "Event" ->
            [state |-> st,
             effect |-> EffectSend(<<"TextField", "Event", action[2]>>)]

\* chat::Feature::reduce (app/chat.rs) with the focus on the textarea: the
\* text of the textarea, is_streaming, the length of history and whether
\* partial holds anything
chatReduce(st, action) ==
    CASE action[1] = "Delegated" -> [state |-> st, effect |-> EffectNone]
      [] action = <<"CommitMessage">> ->
            [state |-> [st EXCEPT !.partial = FALSE, !.history = @ + 1],
             effect |-> EffectNone]
      [] action = <<"UpdatePartial">> ->
            [state |-> [st EXCEPT !.partial = TRUE], effect |-> EffectNone]
      [] action = <<"TextField", "Delegated", "Noop">> ->
            [state |-> st, effect |-> EffectSend(<<"Delegated", "Noop">>)]
      [] action = <<"TextField", "Delegated", "Commit">> ->
            IF st.is_streaming
            THEN [state |-> st, effect |-> EffectNone]
            ELSE [state |-> [st EXCEPT !.textarea = ""],
                  effect |-> EffectRun(StreamJob("chat", st.textarea))]
      [] action[1] = "TextField" /\ action[2] = "Delegated" ->
            [state |-> st, effect |-> EffectNone]
      [] action = <<"BeganStreaming">> ->
            [state |-> [st EXCEPT !.is_streaming = TRUE], effect |-> EffectNone]
      [] action = <<"StoppedStreaming">> ->
            [state |-> [st EXCEPT !.is_streaming = FALSE],
             effect |-> EffectNone]
      [] action[1] = "TextField" ->
            LET r == textfieldReduce(st.textarea, Tail(action))
            IN  [state |-> [st EXCEPT !.textarea = r.state],
                 effect |-> EffectMap(r.effect, "TextField")]
      [] action[1] = "Event" ->
            [state |-> st,
             effect |-> EffectSend(<<"TextField", "Event", action[2]>>)]

\* root feature: implementation of Reducer::reduce
reduce(state, action) ==
    CASE Head(action) = "Child" ->
            LET r == childReduce(state.child, Tail(action))
            IN  [state |-> [state EXCEPT !.child = r.state],
                 effect |-> EffectMap(r.effect, "Child")]
      [] Head(action) = "Conversation" ->
            LET r == conversationReduce(state.tooltip, Tail(action))
            IN  [state |-> [state EXCEPT !.tooltip = r.state],
                 effect |-> EffectMap(r.effect, "Conversation")]
      [] Head(action) = "Chat" ->
            LET r == chatReduce(state.chat, Tail(action))
            IN  [state |-> [state EXCEPT !.chat = r.state],
                 effect |-> EffectMap(r.effect, "Chat")]
      [] Head(action) = "Event" ->
            [state |-> state, effect |-> EffectSend(Wrap("Child", action))]
      [] OTHER -> [state |-> state, effect |-> EffectNone]

\* the caller-supplied event_mapper of run: Action::Event(evt)
event_mapper(evt) == <<"Event", evt>>

\* actions the public send is called with from outside the run loop
SendActions ==
    { <<"Child", "Exit">>, <<"Child", "Ping">>, <<"Child", "Up">> }

\* child actions sent through the scoped handle
ScopedActions == { <<"Increment">>, <<"Fetch">> }

\* grandchild actions sent through the handle scoped twice
GrandActions == { <<"Poke">> }

\* actions sent to the chat and conversation features: terminal events the
\* chat feature is handed, a Commit of the textfield, and a tooltip
FeatureActions ==
    { <<"Chat", "Event", "x">>,
      <<"Chat", "Event", "Enter">>,
      <<"Chat", "TextField", "Delegated", "Commit">>,
      <<"Conversation", "ScheduleTooltip", "Success">> }

(***************************************************************************)
(* State of the engine and of the tasks that run it.                       *)
(***************************************************************************)
VARIABLES
    state,            \* StoreEngine.state: the value behind Arc<Mutex<State>>
    state_guard,      \* holder of the state mutex, 0 when it is free
    queue,            \* the unbounded channel: StoreEvents sent, not yet received
    receiver_guard,   \* holder of the event_reciever mutex, 0 when it is free
    terminal,         \* the terminal EventStream handed to run
    callers,          \* the tasks that call run
    pc,               \* where each task is inside run
    effect,           \* the effect each task's handle is matching on
    job,              \* the job each task is awaiting: its script and its sender
    ctx,              \* history: what each task's handle was started for
    sent,             \* history: number of sends made from outside the loop
    lastRank,         \* history: rank of the last Action event run received
    burst,            \* history: the reducer invocations of the Dispatch in progress
    interleaved,      \* history: an event was processed inside a Send chain
    scoped,           \* history: the scoped sends and their reducer invocations
    quitEffect,       \* history: a Quit effect has been interpreted
    quitDequeued,     \* history: run has received StoreEvent::Quit
    inputFailed,      \* history: the terminal stream yielded an error or ended
    lastMap,          \* history: the last child effect and what map made of it
    jobSent,          \* history: what the awaited job passed to its sender
    jobGot,           \* history: what the engine's sender got from that job
    obs,              \* history: counts and flags of what has been observed
    auth,             \* auth::State: its configuration, None or ChatGPT
    chat_loader,      \* chat_loader::State: None or Chat
    stream,           \* the chat-completion job in flight and what it has sent
    panicked,         \* the feature whose code panicked, "" while none has
    called,           \* history: the last call of a feature reducer
    entry,            \* entry::State's own fields and the Send chain in progress
    view              \* the State of the one feature a feature-level run exercises

\* the engine and the tasks that run it
engineVars ==
    << state, state_guard, queue, receiver_guard, terminal, callers, pc,
       effect, job, ctx, sent, lastRank, burst, interleaved, scoped,
       quitEffect, quitDequeued, inputFailed, lastMap, jobSent, jobGot, obs >>

\* the features of the application
\* the features the engine and routing runs exercise
routingVars == << auth, chat_loader, stream, panicked, called, entry >>

appVars == << routingVars, view >>

vars == << engineVars, appVars >>

(***************************************************************************)
(* StoreEvent (store.rs).  Two history fields ride on an Action event:     *)
(* rank, one more than the number of Action events sent before it and not  *)
(* yet received, and via, the action the child's scoped handle was given   *)
(* when it was sent through it; a third, seq, numbers the sends of a job.  *)
(***************************************************************************)
RedrawUI ==
    [type |-> "RedrawUI", action |-> <<>>, rank |-> 0, via |-> <<>>, seq |-> 0]

QuitEvent ==
    [type |-> "Quit", action |-> <<>>, rank |-> 0, via |-> <<>>, seq |-> 0]

ActionEvent(action, rank, via) ==
    [type |-> "Action", action |-> action, rank |-> rank, via |-> via,
     seq |-> 0]

\* the Action events of the channel
Pending(q) == { i \in 1..Len(q) : q[i].type = "Action" }

\* the channel after its head was received
Received(q) ==
    [i \in 1..(Len(q) - 1) |->
        IF q[i + 1].type = "Action" /\ Head(q).type = "Action"
        THEN [q[i + 1] EXCEPT !.rank = @ - 1]
        ELSE q[i + 1]]

\* a channel that hands the newest event to the receiver first
send_event_lifo(q, evt) == <<evt>> \o q

\* EventSenderHolder::send_event: UnboundedSender::send appends to the channel
send_event(q, evt) == Append(q, evt)

\* ActionSender::send for &EventSenderHolder, once per delivered action
RECURSIVE send_all(_, _, _)
send_all(q, actions, via) ==
    IF actions = <<>> THEN q
    ELSE send_all(send_event(q, ActionEvent(Head(actions),
                                            Cardinality(Pending(q)) + 1, via)),
                  Tail(actions), via)

\* a lock that never makes its caller wait
MutexFreeAlways(holder) == TRUE

\* futures::lock::Mutex::lock().await completes only while nobody holds it
MutexFree(holder) == holder = 0

\* the State the engine is constructed with: the counter of the child, no
\* tooltip (conversation::State::new), and chat::State::new
InitState ==
    [child |-> 0,
     tooltip |-> "None",
     chat |-> [textarea |-> "", is_streaming |-> FALSE, history |-> 1,
               partial |-> FALSE]]

\* reduces, sends and redraws count the reducer invocations of the Dispatch,
\* those that returned Send and those that changed State; queued counts the
\* RedrawUI events they put on the channel
NoBurst ==
    [active |-> FALSE, reduces |-> 0, sends |-> 0, redraws |-> 0,
     queued |-> 0, before |-> InitState]

NoJob == [script |-> <<>>, maps |-> <<>>]

NoMap ==
    [inner |-> EffectNone, child |-> EffectNone, mapped |-> EffectNone,
     deep |-> FALSE]

\* what has been sent so far: nothing, only Increment through the scoped
\* handle, only Ping, or anything else; n and redraws count the sends and the
\* redraw callbacks while it is not "mixed"; refused tells that the chat
\* reducer was handed a Commit while is_streaming was set
NoObs ==
    [lastSeq |-> 0, disorder |-> FALSE, lateSend |-> FALSE, only |-> "",
     n |-> 0, redraws |-> 0, shown |-> FALSE, refused |-> FALSE]

\* history of one send of action through the handle named by kind
Sending(o, kind) ==
    IF o.only \in {"", kind} /\ kind # "mixed"
    THEN [o EXCEPT !.only = kind, !.n = @ + 1]
    ELSE [o EXCEPT !.only = "mixed", !.n = 0, !.redraws = 0]

\* history of one call of the redraw callback; shown tells that it was
\* handed a State with a tooltip
Redrawn(o) ==
    [(IF o.only = "mixed" THEN o ELSE [o EXCEPT !.redraws = @ + 1])
        EXCEPT !.shown = @ \/ state.tooltip # "None"]

\* history: the last n events of the channel are the k-th send of a job
Tagged(q, n, k) ==
    [i \in 1..Len(q) |-> IF i > Len(q) - n THEN [q[i] EXCEPT !.seq = k]
                          ELSE q[i]]

NoCtx == [head |-> FALSE, via |-> <<>>, seq |-> 0]

\* StoreEngine::new, and a fresh terminal stream
InitEngine ==
    /\ state = InitState
    /\ state_guard = 0
    /\ queue = <<>>
    /\ receiver_guard = 0
    /\ terminal = [left |-> MaxInputs, ended |-> FALSE]
    /\ pc = [r \in Runners |-> "idle"]
    /\ effect = [r \in Runners |-> EffectNone]
    /\ job = [r \in Runners |-> NoJob]
    /\ ctx = [r \in Runners |-> NoCtx]
    /\ sent = 0
    /\ lastRank = 0
    /\ burst = NoBurst
    /\ interleaved = FALSE
    /\ scoped = [sent |-> 0, invoked |-> 0, pairs |-> {}]
    /\ quitEffect = FALSE
    /\ quitDequeued = FALSE
    /\ inputFailed = FALSE
    /\ lastMap = NoMap
    /\ jobSent = <<>>
    /\ jobGot = <<>>
    /\ obs = NoObs

(***************************************************************************)
(* Features of the application (src/src/app).  A child reducer the feature *)
(* delegates to is represented by the effect it returns, childEffect.  A   *)
(* call yields the new state, the effect, and whether the code panicked.   *)
(***************************************************************************)
\* effects a nested reducer (chat_gpt_configuration, list, chat) may return
ChildEffects == { EffectNone, EffectSend(<<"Delegated", "Noop">>) }

AuthActions ==
    { <<"ChatGPTConfig", "Delegated", "Exit">>,
      <<"ChatGPTConfig", "Delegated", "Noop">>,
      <<"ChatGPTConfig", "Delegated", "Finished">>,
      <<"ChatGPTConfig", "Event">>,
      <<"List", "Delegated", "Noop">>,
      <<"List", "Delegated", "Enter">>,
      <<"List", "Delegated", "Toogle">>,
      <<"List", "Event">>,
      <<"Delegated", "Noop">>,
      <<"Event">> }

\* an AuthReducer that ignores a ChatGPTConfig action it has no state for
AuthReducerIgnoring(st, action, childEffect) ==
    CASE action = <<"ChatGPTConfig", "Delegated", "Exit">> ->
            [state |-> [st EXCEPT !.configuration = "None"],
             effect |-> EffectNone, panic |-> FALSE]
      [] action = <<"ChatGPTConfig", "Delegated", "Noop">> ->
            [state |-> st, effect |-> EffectSend(<<"Delegated", "Noop">>),
             panic |-> FALSE]
      [] action = <<"ChatGPTConfig", "Delegated", "Finished">> ->
            [state |-> [st EXCEPT !.configuration = "None"],
             effect |-> EffectNone, panic |-> FALSE]
      [] Head(action) = "ChatGPTConfig" /\ action[2] # "Delegated" ->
            IF st.configuration = "ChatGPT"
            THEN [state |-> st,
                  effect |-> EffectMap(childEffect, "ChatGPTConfig"),
                  panic |-> FALSE]
            ELSE [state |-> st, effect |-> EffectNone, panic |-> FALSE]
      [] action = <<"List", "Delegated", "Noop">> ->
            [state |-> st, effect |-> EffectSend(<<"Delegated", "Noop">>),
             panic |-> FALSE]
      [] action = <<"List", "Delegated", "Enter">> ->
            [state |-> [st EXCEPT !.configuration = "ChatGPT"],
             effect |-> EffectNone, panic |-> FALSE]
      [] action = <<"List", "Delegated", "Toogle">> ->
            [state |-> st, effect |-> EffectNone, panic |-> FALSE]
      [] Head(action) = "List" /\ action[2] # "Delegated" ->
            [state |-> st, effect |-> EffectMap(childEffect, "List"),
             panic |-> FALSE]
      [] action = <<"Delegated", "Noop">> ->
            [state |-> st, effect |-> EffectNone, panic |-> FALSE]
      [] action = <<"Event">> ->
            [state |-> st,
             effect |-> IF st.configuration = "ChatGPT"
                        THEN EffectSend(<<"ChatGPTConfig", "Event">>)
                        ELSE EffectSend(<<"List", "Event">>),
             panic |-> FALSE]

\* AuthReducer::reduce (auth.rs)
AuthReducer(st, action, childEffect) ==
    CASE action = <<"ChatGPTConfig", "Delegated", "Exit">> ->
            [state |-> [st EXCEPT !.configuration = "None"],
             effect |-> EffectNone, panic |-> FALSE]
      [] action = <<"ChatGPTConfig", "Delegated", "Noop">> ->
            [state |-> st, effect |-> EffectSend(<<"Delegated", "Noop">>),
             panic |-> FALSE]
      [] action = <<"ChatGPTConfig", "Delegated", "Finished">> ->
            [state |-> [st EXCEPT !.configuration = "None"],
             effect |-> EffectNone, panic |-> FALSE]
      [] Head(action) = "ChatGPTConfig" /\ action[2] # "Delegated" ->
            IF st.configuration = "ChatGPT"
            THEN [state |-> st,
                  effect |-> EffectMap(childEffect, "ChatGPTConfig"),
                  panic |-> FALSE]
            ELSE [state |-> st, effect |-> EffectNone, panic |-> TRUE]
      [] action = <<"List", "Delegated", "Noop">> ->
            [state |-> st, effect |-> EffectSend(<<"Delegated", "Noop">>),
             panic |-> FALSE]
      [] action = <<"List", "Delegated", "Enter">> ->
            [state |-> [st EXCEPT !.configuration = "ChatGPT"],
             effect |-> EffectNone, panic |-> FALSE]
      [] action = <<"List", "Delegated", "Toogle">> ->
            [state |-> st, effect |-> EffectNone, panic |-> FALSE]
      [] Head(action) = "List" /\ action[2] # "Delegated" ->
            [state |-> st, effect |-> EffectMap(childEffect, "List"),
             panic |-> FALSE]
      [] action = <<"Delegated", "Noop">> ->
            [state |-> st, effect |-> EffectNone, panic |-> FALSE]
      [] action = <<"Event">> ->
            [state |-> st,
             effect |-> IF st.configuration = "ChatGPT"
                        THEN EffectSend(<<"ChatGPTConfig", "Event">>)
                        ELSE EffectSend(<<"List", "Event">>),
             panic |-> FALSE]

ChatLoaderActions ==
    { <<"Event">>,
      <<"ReloadConfig">>,
      <<"Chat", "Delegated", "Noop">>,
      <<"Chat", "Delegated", "Quit">>,
      <<"Chat", "Event">>,
      <<"Delegated", "Noop">> }

\* a chat_loader reducer that drops the chat when no configuration is found
ChatLoaderFeatureReset(st, action, childEffect, configured) ==
    CASE action = <<"Event">> ->
            [state |-> st,
             effect |-> IF st = "None" THEN EffectSend(<<"Delegated", "Noop">>)
                        ELSE EffectSend(<<"Chat", "Event">>),
             panic |-> FALSE]
      [] action = <<"Chat", "Delegated", "Noop">> ->
            [state |-> st, effect |-> EffectSend(<<"Delegated", "Noop">>),
             panic |-> FALSE]
      [] action = <<"Chat", "Delegated", "Quit">> ->
            [state |-> st, effect |-> EffectSend(<<"Delegated", "Quit">>),
             panic |-> FALSE]
      [] Head(action) = "Chat" /\ action[2] # "Delegated" ->
            IF st = "Chat"
            THEN [state |-> st, effect |-> EffectMap(childEffect, "Chat"),
                  panic |-> FALSE]
            ELSE [state |-> st, effect |-> EffectNone, panic |-> TRUE]
      [] Head(action) = "Delegated" ->
            [state |-> st, effect |-> EffectNone, panic |-> FALSE]
      [] action = <<"ReloadConfig">> ->
            IF configured
            THEN [state |-> "Chat",
                  effect |-> EffectSend(<<"Chat", "Sidebar",
                                          "ConversationList", "Reload">>),
                  panic |-> FALSE]
            ELSE [state |-> "None", effect |-> EffectNone, panic |-> FALSE]

\* chat_loader::Feature::reduce; configured tells whether
\* ChatGPTConfiguration::open() finds a configuration
ChatLoaderFeature(st, action, childEffect, configured) ==
    CASE action = <<"Event">> ->
            [state |-> st,
             effect |-> IF st = "None" THEN EffectSend(<<"Delegated", "Noop">>)
                        ELSE EffectSend(<<"Chat", "Event">>),
             panic |-> FALSE]
      [] action = <<"Chat", "Delegated", "Noop">> ->
            [state |-> st, effect |-> EffectSend(<<"Delegated", "Noop">>),
             panic |-> FALSE]
      [] action = <<"Chat", "Delegated", "Quit">> ->
            [state |-> st, effect |-> EffectSend(<<"Delegated", "Quit">>),
             panic |-> FALSE]
      [] Head(action) = "Chat" /\ action[2] # "Delegated" ->
            IF st = "Chat"
            THEN [state |-> st, effect |-> EffectMap(childEffect, "Chat"),
                  panic |-> FALSE]
            ELSE [state |-> st, effect |-> EffectNone, panic |-> TRUE]
      [] Head(action) = "Delegated" ->
            [state |-> st, effect |-> EffectNone, panic |-> FALSE]
      [] action = <<"ReloadConfig">> ->
            IF configured
            THEN [state |-> "Chat",
                  effect |-> EffectSend(<<"Chat", "Sidebar",
                                          "ConversationList", "Reload">>),
                  panic |-> FALSE]
            ELSE [state |-> st, effect |-> EffectNone, panic |-> FALSE]

(***************************************************************************)
(* The entry feature (src/src/app/entry.rs) and its navigation child.  The *)
(* crossterm Event a chain was started for is carried by every Event and   *)
(* Noop action of the chain; it is kept apart from the action, as e.       *)
(***************************************************************************)
Key(code, kind, ctrl) ==
    [type |-> "Key", code |-> code, kind |-> kind, ctrl |-> ctrl, size |-> 0]

KeyCodes == {"q", "c", "!", "@", "x"}

KeyEventKinds == {"Press", "Repeat", "Release"}

\* the events crossterm can deliver; ctrl is key.modifiers == CONTROL
TerminalEvents ==
    { Key(code, kind, ctrl) :
          code \in KeyCodes, kind \in KeyEventKinds, ctrl \in BOOLEAN }
    \cup { [type |-> "Paste", code |-> "", kind |-> "", ctrl |-> FALSE,
            size |-> 0],
           [type |-> "Mouse", code |-> "", kind |-> "", ctrl |-> FALSE,
            size |-> 0],
           [type |-> "Resize", code |-> "", kind |-> "", ctrl |-> FALSE,
            size |-> 1] }

NoEvent ==
    [type |-> "", code |-> "", kind |-> "", ctrl |-> FALSE, size |-> 0]

\* CurrentScreen::try_from(KeyCode)
CurrentScreenTryFrom(code) ==
    CASE code = "!" -> "Chat"
      [] code = "@" -> "Config"
      [] OTHER -> "Err"

\* a navigation reducer that does not look at the kind of the key event
NavigationReducerAnyKind(action, e) ==
    IF Head(action) = "Delegated" THEN EffectNone
    ELSE IF e.type = "Key"
    THEN CASE e.code = "q" -> EffectSend(<<"Delegated", "Exit">>)
           [] e.code = "c" /\ e.ctrl -> EffectSend(<<"Delegated", "Exit">>)
           [] e.code \notin {"q", "c"} /\ CurrentScreenTryFrom(e.code) # "Err" ->
                 EffectSend(<<"Delegated", "ChangeScreen",
                              CurrentScreenTryFrom(e.code)>>)
           [] OTHER -> EffectSend(<<"Delegated", "Noop">>)
    ELSE EffectSend(<<"Delegated", "Noop">>)

\* NavigationReducer::reduce (navigation.rs); it never changes its state
NavigationReducer(action, e) ==
    IF Head(action) = "Delegated" THEN EffectNone
    ELSE IF e.type = "Key" /\ e.kind # "Release"
    THEN CASE e.code = "q" -> EffectSend(<<"Delegated", "Exit">>)
           [] e.code = "c" /\ e.ctrl -> EffectSend(<<"Delegated", "Exit">>)
           [] e.code \notin {"q", "c"} /\ CurrentScreenTryFrom(e.code) # "Err" ->
                 EffectSend(<<"Delegated", "ChangeScreen",
                              CurrentScreenTryFrom(e.code)>>)
           [] OTHER -> EffectSend(<<"Delegated", "Noop">>)
    ELSE EffectSend(<<"Delegated", "Noop">>)

\* what list::reduce makes of an Event
ListEffects ==
    { EffectNone,
      EffectSend(<<"Delegated", "Noop">>),
      EffectSend(<<"Delegated", "Toogle">>),
      EffectSend(<<"Delegated", "Enter">>) }

\* what the chain of single_line_input and its text field ends with
SingleLineInputEffects ==
    { EffectNone,
      EffectSend(<<"Delegated", "Noop">>),
      EffectSend(<<"Delegated", "Exit">>),
      EffectSend(<<"Delegated", "Enter">>) }

\* what chat_gpt_configuration::Feature::reduce makes of an action
ConfigurationEffects(action) ==
    CASE action = <<"Event">> -> { EffectSend(<<"Input", "Event">>) }
      [] action = <<"Input", "Delegated", "Exit">> ->
            { EffectSend(<<"Delegated", "Exit">>) }
      [] action = <<"Input", "Delegated", "Noop">> ->
            { EffectSend(<<"Delegated", "Noop">>) }
      [] action = <<"Input", "Delegated", "Enter">> ->
            { EffectSend(<<"Delegated", "Finished">>) }
      [] Head(action) = "Input" /\ action[2] # "Delegated" ->
            { EffectMap(inner, "Input") : inner \in SingleLineInputEffects }
      [] OTHER -> { EffectNone }

\* what the chat feature under chat_loader makes of an action: Reload goes
\* down to conversation_list, which starts the job that sends UpdateList; an
\* Event is handled, bubbles up as Delegated, or starts a streaming job
chatEffects(action) ==
    CASE action = <<"Sidebar", "ConversationList", "Reload">> ->
            { EffectRun(<< <<"Sidebar", "ConversationList", "UpdateList">> >>) }
      [] action = <<"Event">> ->
            { EffectNone,
              EffectSend(<<"Delegated", "Noop">>),
              EffectSend(<<"Delegated", "Quit">>),
              EffectRun(<< <<"Conversation", "BeganStreaming">> >>) }
      [] OTHER -> { EffectNone }

\* the effects the nested reducer may return for an action of entry
NestedEffects(action) ==
    CASE Len(action) >= 3 /\ action[1] = "Config" /\ action[2] = "List" ->
            ListEffects
      [] Len(action) >= 3 /\ action[1] = "Config"
            /\ action[2] = "ChatGPTConfig" ->
            ConfigurationEffects(SubSeq(action, 3, Len(action)))
      [] Len(action) >= 3 /\ action[1] = "Chat" /\ action[2] = "Chat" ->
            chatEffects(SubSeq(action, 3, Len(action)))
      [] OTHER -> { EffectNone }

\* an entry reducer that hands an event navigation did not use back to
\* itself
EntryFeatureBounce(st, action, e, childEffect, configured) ==
    CASE action \in { <<"Chat", "Delegated", "Noop">>,
                      <<"Config", "Delegated", "Noop">> } ->
            [state |-> st,
             effect |-> EffectMap(NavigationReducer(<<"Event">>, e),
                                  "Navigation"),
             panic |-> ""]
      [] Head(action) = "Config" /\ action # <<"Config", "Delegated", "Noop">> ->
            LET res == AuthReducer(st.auth, Tail(action), childEffect)
            IN  [state |-> [st EXCEPT !.auth = res.state],
                 effect |-> EffectMap(res.effect, "Config"),
                 panic |-> IF res.panic THEN "auth" ELSE ""]
      [] Head(action) = "Chat" /\ action # <<"Chat", "Delegated", "Noop">> ->
            LET res == ChatLoaderFeature(st.chat, Tail(action), childEffect,
                                         configured)
            IN  [state |-> [st EXCEPT !.chat = res.state],
                 effect |-> EffectMap(res.effect, "Chat"),
                 panic |-> IF res.panic THEN "chat_loader" ELSE ""]
      [] action = <<"Event">> ->
            IF e.type = "Paste"
                  \/ (e.type = "Key" /\ e.kind \in {"Press", "Release"})
            THEN [state |-> st,
                  effect |-> IF st.navigation.current_screen = "Chat"
                             THEN EffectSend(<<"Chat", "Event">>)
                             ELSE EffectSend(<<"Config", "Event">>),
                  panic |-> ""]
            ELSE IF e.type = "Resize"
            THEN [state |-> [st EXCEPT !.size = e.size],
                  effect |-> EffectNone, panic |-> ""]
            ELSE [state |-> st, effect |-> EffectNone, panic |-> ""]
      [] Head(action) = "Navigation" ->
            IF action[2] # "Delegated"
            THEN [state |-> st, effect |-> EffectNone, panic |-> ""]
            ELSE CASE action[3] = "Noop" ->
                        [state |-> st, effect |-> EffectSend(<<"Event">>),
                         panic |-> ""]
                   [] action[3] = "ChangeScreen" ->
                        [state |-> [st EXCEPT
                                       !.navigation.current_screen = action[4]],
                         effect |-> IF action[4] = "Chat"
                                    THEN EffectSend(<<"Chat", "ReloadConfig">>)
                                    ELSE EffectNone,
                         panic |-> ""]
                   [] action[3] = "Exit" ->
                        [state |-> st, effect |-> EffectQuit, panic |-> ""]

\* entry::Feature::reduce; e is the crossterm Event of the chain,
\* childEffect what the reducer nested under auth or chat_loader returns
EntryFeature(st, action, e, childEffect, configured) ==
    CASE action \in { <<"Chat", "Delegated", "Noop">>,
                      <<"Config", "Delegated", "Noop">> } ->
            [state |-> st,
             effect |-> EffectMap(NavigationReducer(<<"Event">>, e),
                                  "Navigation"),
             panic |-> ""]
      [] Head(action) = "Config" /\ action # <<"Config", "Delegated", "Noop">> ->
            LET res == AuthReducer(st.auth, Tail(action), childEffect)
            IN  [state |-> [st EXCEPT !.auth = res.state],
                 effect |-> EffectMap(res.effect, "Config"),
                 panic |-> IF res.panic THEN "auth" ELSE ""]
      [] Head(action) = "Chat" /\ action # <<"Chat", "Delegated", "Noop">> ->
            LET res == ChatLoaderFeature(st.chat, Tail(action), childEffect,
                                         configured)
            IN  [state |-> [st EXCEPT !.chat = res.state],
                 effect |-> EffectMap(res.effect, "Chat"),
                 panic |-> IF res.panic THEN "chat_loader" ELSE ""]
      [] action = <<"Event">> ->
            IF e.type = "Paste"
                  \/ (e.type = "Key" /\ e.kind \in {"Press", "Release"})
            THEN [state |-> st,
                  effect |-> IF st.navigation.current_screen = "Chat"
                             THEN EffectSend(<<"Chat", "Event">>)
                             ELSE EffectSend(<<"Config", "Event">>),
                  panic |-> ""]
            ELSE IF e.type = "Resize"
            THEN [state |-> [st EXCEPT !.size = e.size],
                  effect |-> EffectNone, panic |-> ""]
            ELSE [state |-> st, effect |-> EffectNone, panic |-> ""]
      [] Head(action) = "Navigation" ->
            IF action[2] # "Delegated"
            THEN [state |-> st, effect |-> EffectNone, panic |-> ""]
            ELSE CASE action[3] = "Noop" ->
                        [state |-> st, effect |-> EffectNone, panic |-> ""]
                   [] action[3] = "ChangeScreen" ->
                        [state |-> [st EXCEPT
                                       !.navigation.current_screen = action[4]],
                         effect |-> IF action[4] = "Chat"
                                    THEN EffectSend(<<"Chat", "ReloadConfig">>)
                                    ELSE EffectNone,
                         panic |-> ""]
                   [] action[3] = "Exit" ->
                        [state |-> st, effect |-> EffectQuit, panic |-> ""]

\* entry::State::default, and no chain started
InitEntry ==
    [navigation |-> [current_screen |-> "Chat"],
     size |-> 0,
     event |-> NoEvent,
     effect |-> EffectNone,
     path |-> <<>>,
     jobs |-> {},
     dispatched |-> 0]

\* conversation's Feature::reduce on is_streaming: BeganStreaming sets it,
\* StoppedStreaming clears it, no other action touches it
conversationStreaming(is_streaming, action) ==
    CASE action = <<"BeganStreaming">> -> TRUE
      [] action = <<"StoppedStreaming">> -> FALSE
      [] OTHER -> is_streaming

\* is_streaming after the actions have been reduced in order
RECURSIVE StreamingAfter(_, _)
StreamingAfter(is_streaming, actions) ==
    IF actions = <<>> THEN is_streaming
    ELSE StreamingAfter(conversationStreaming(is_streaming, Head(actions)),
                        Tail(actions))

\* the features whose reducer starts a chat-completion job: conversation
\* (Action::NewMessage) and chat (textfield Delegated::Commit)
StreamFeatures == { "conversation", "chat" }

NoStream ==
    [feature |-> "", at |-> "idle", out |-> <<>>, chunks |-> 0, failure |-> ""]

NoCall ==
    [feature |-> "", action |-> <<>>, before |-> "", effect |-> EffectNone]

\* the CommitMessage sends for ChatMessage::from_response_chunks(output)
Commits(chunks) == IF chunks > 0 THEN << <<"CommitMessage">> >> ELSE <<>>

\* the sends of the job's error arm
ErrorSends == << <<"ScheduleTooltip", "Error">>, <<"StoppedStreaming">> >>

\* entry::State::default and no job started
InitRouting ==
    /\ auth = [configuration |-> "None"]
    /\ chat_loader = "None"
    /\ stream = NoStream
    /\ panicked = ""
    /\ called = NoCall
    /\ entry = InitEntry

\* no feature-level run
NoView == [feature |-> ""]

InitFeatures == InitRouting /\ view = NoView

\* a run of one feature's reducer on its own: the engine and the routing
\* features stay as constructed
InitView == InitEngine /\ InitRouting /\ callers = {}

\* one task calls run
Init == InitEngine /\ InitFeatures /\ callers = {1}

\* two tasks call run on the same engine
InitConcurrent == InitEngine /\ InitFeatures /\ callers = Runners

\* the feature reducers and jobs on their own, no task runs the engine
InitApp == InitEngine /\ InitFeatures /\ callers = {}

(***************************************************************************)
(* StoreEngine::run                                                        *)
(***************************************************************************)
\* a run that enters its loop without calling redraw first
RunStartNoRedraw(r) ==
    /\ r \in callers
    /\ pc[r] = "idle"
    /\ MutexFree(receiver_guard)
    /\ receiver_guard' = r
    /\ pc' = [pc EXCEPT ![r] = "select"]
    /\ UNCHANGED << state, state_guard, queue, terminal, callers, effect, job,
                    ctx, sent, lastRank, burst, interleaved, scoped,
                    quitEffect, quitDequeued, inputFailed, lastMap, jobSent,
                    jobGot >>
    /\ UNCHANGED obs
    /\ UNCHANGED appVars

\* run, line 52: take the receiver for the whole call
RunStart(r) ==
    /\ r \in callers
    /\ pc[r] = "idle"
    /\ MutexFree(receiver_guard)
    /\ receiver_guard' = r
    /\ pc' = [pc EXCEPT ![r] = "init"]
    /\ UNCHANGED << state, state_guard, queue, terminal, callers, effect, job,
                    ctx, sent, lastRank, burst, interleaved, scoped,
                    quitEffect, quitDequeued, inputFailed, lastMap, jobSent,
                    jobGot >>
    /\ UNCHANGED obs
    /\ UNCHANGED appVars

\* run, lines 54-57: the first redraw, under the state lock
InitialRedraw(r) ==
    /\ pc[r] = "init"
    /\ MutexFree(state_guard)
    /\ pc' = [pc EXCEPT ![r] = "select"]
    /\ UNCHANGED << state, state_guard, queue, receiver_guard, terminal,
                    callers, effect, job, ctx, sent, lastRank, burst,
                    interleaved, scoped, quitEffect, quitDequeued,
                    inputFailed, lastMap, jobSent, jobGot >>
    /\ obs' = Redrawn(obs)
    /\ UNCHANGED appVars

\* a loop that receives RedrawUI and does not call redraw
RecvRedrawDropped(r) ==
    /\ pc[r] = "select"
    /\ queue # <<>>
    /\ Head(queue).type = "RedrawUI"
    /\ MutexFree(state_guard)
    /\ queue' = Received(queue)
    /\ interleaved' = (interleaved \/ burst.active)
    /\ UNCHANGED << state, state_guard, receiver_guard, terminal, callers, pc,
                    effect, job, ctx, sent, lastRank, burst, scoped,
                    quitEffect, quitDequeued, inputFailed, lastMap, jobSent,
                    jobGot >>
    /\ UNCHANGED obs
    /\ UNCHANGED appVars

\* a redraw callback that is handed the State mutably and changes it
RecvRedrawMutating(r) ==
    /\ pc[r] = "select"
    /\ queue # <<>>
    /\ Head(queue).type = "RedrawUI"
    /\ MutexFree(state_guard)
    /\ queue' = Received(queue)
    /\ state' = [state EXCEPT !.child = (@ + 1) % CountMod]
    /\ interleaved' = (interleaved \/ burst.active)
    /\ UNCHANGED << state_guard, receiver_guard, terminal, callers, pc,
                    effect, job, ctx, sent, lastRank, burst, scoped,
                    quitEffect, quitDequeued, inputFailed, lastMap, jobSent,
                    jobGot >>
    /\ obs' = Redrawn(obs)
    /\ UNCHANGED appVars

\* select!, recv branch, StoreEvent::RedrawUI: redraw under the state lock
RecvRedraw(r) ==
    /\ pc[r] = "select"
    /\ queue # <<>>
    /\ Head(queue).type = "RedrawUI"
    /\ MutexFree(state_guard)
    /\ queue' = Received(queue)
    /\ interleaved' = (interleaved \/ burst.active)
    /\ UNCHANGED << state, state_guard, receiver_guard, terminal, callers, pc,
                    effect, job, ctx, sent, lastRank, burst, scoped,
                    quitEffect, quitDequeued, inputFailed, lastMap, jobSent,
                    jobGot >>
    /\ obs' = Redrawn(obs)
    /\ UNCHANGED appVars

\* select!, recv branch, StoreEvent::Action: internal_send hands
\* Effect::send(action) to handle
RecvAction(r) ==
    /\ pc[r] = "select"
    /\ queue # <<>>
    /\ Head(queue).type = "Action"
    /\ queue' = Received(queue)
    /\ effect' = [effect EXCEPT ![r] = EffectSend(Head(queue).action)]
    /\ ctx' = [ctx EXCEPT ![r] = [head |-> TRUE, via |-> Head(queue).via,
                                  seq |-> Head(queue).seq]]
    /\ lastRank' = Head(queue).rank
    /\ interleaved' = (interleaved \/ burst.active)
    /\ burst' = [NoBurst EXCEPT !.active = TRUE, !.before = state]
    /\ pc' = [pc EXCEPT ![r] = "handle"]
    /\ UNCHANGED << state, state_guard, receiver_guard, terminal, callers, job,
                    sent, scoped, quitEffect, quitDequeued, inputFailed,
                    lastMap, jobSent, jobGot >>
    /\ obs' = IF Head(queue).seq = 0 THEN obs
               ELSE [obs EXCEPT
                        !.lastSeq = Head(queue).seq % 2,
                        !.disorder = @ \/ obs.lastSeq # Head(queue).seq - 1]
    /\ UNCHANGED appVars

\* a loop that ignores StoreEvent::Quit
RecvQuitIgnored(r) ==
    /\ pc[r] = "select"
    /\ queue # <<>>
    /\ Head(queue).type = "Quit"
    /\ queue' = Received(queue)
    /\ quitDequeued' = TRUE
    /\ UNCHANGED << state, state_guard, receiver_guard, terminal, callers, pc,
                    effect, job, ctx, sent, lastRank, burst, interleaved,
                    scoped, quitEffect, inputFailed, lastMap, jobSent,
                    jobGot >>
    /\ UNCHANGED obs
    /\ UNCHANGED appVars

\* select!, recv branch, StoreEvent::Quit: break, run returns and drops the
\* receiver guard
RecvQuit(r) ==
    /\ pc[r] = "select"
    /\ queue # <<>>
    /\ Head(queue).type = "Quit"
    /\ queue' = Received(queue)
    /\ quitDequeued' = TRUE
    /\ receiver_guard' = 0
    /\ pc' = [pc EXCEPT ![r] = "done"]
    /\ UNCHANGED << state, state_guard, terminal, callers, effect, job, ctx,
                    sent, lastRank, burst, interleaved, scoped, quitEffect,
                    inputFailed, lastMap, jobSent, jobGot >>
    /\ UNCHANGED obs
    /\ UNCHANGED appVars

\* select!, terminal branch, Some(Ok(evt)): self.send(event_mapper(evt))
PollInputOk(r) ==
    /\ pc[r] = "select"
    /\ ~terminal.ended
    /\ terminal.left > 0
    /\ \E evt \in InputEvents :
          queue' = send_all(queue, << event_mapper(evt) >>, <<>>)
    /\ terminal' = [terminal EXCEPT !.left = @ - 1]
    /\ interleaved' = (interleaved \/ burst.active)
    /\ UNCHANGED << state, state_guard, receiver_guard, callers, pc, effect,
                    job, ctx, sent, lastRank, burst, scoped, quitEffect,
                    quitDequeued, inputFailed, lastMap, jobSent, jobGot >>
    /\ obs' = Sending(obs, "mixed")
    /\ UNCHANGED appVars

\* select!, terminal branch, Some(Err(_)) or None: continue
PollInputFail(r) ==
    /\ pc[r] = "select"
    /\ ~terminal.ended
    /\ \/ /\ terminal.left > 0
          /\ terminal' = [terminal EXCEPT !.left = @ - 1]
       \/ terminal' = [terminal EXCEPT !.ended = TRUE]
    /\ inputFailed' = TRUE
    /\ UNCHANGED << state, state_guard, queue, receiver_guard, callers, pc,
                    effect, job, ctx, sent, lastRank, burst, interleaved,
                    scoped, quitEffect, quitDequeued, lastMap, jobSent,
                    jobGot >>
    /\ UNCHANGED obs
    /\ UNCHANGED appVars

(***************************************************************************)
(* StoreEngine::handle                                                     *)
(***************************************************************************)
\* a handle that sends RedrawUI when it meets EffectValue::None
HandleNoneRedraw(r) ==
    /\ pc[r] = "handle"
    /\ effect[r].kind = "None"
    /\ pc' = [pc EXCEPT ![r] = "select"]
    /\ queue' = send_event(queue, RedrawUI)
    /\ burst' = NoBurst
    /\ lastMap' = NoMap
    /\ UNCHANGED << state, state_guard, receiver_guard, terminal,
                    callers, effect, job, ctx, sent, lastRank, interleaved,
                    scoped, quitEffect, quitDequeued, inputFailed, jobSent,
                    jobGot >>
    /\ UNCHANGED obs
    /\ UNCHANGED appVars

\* EffectValue::None: handle returns, and with it internal_send
HandleNone(r) ==
    /\ pc[r] = "handle"
    /\ effect[r].kind = "None"
    /\ pc' = [pc EXCEPT ![r] = "select"]
    /\ burst' = NoBurst
    /\ lastMap' = NoMap
    /\ UNCHANGED << state, state_guard, queue, receiver_guard, terminal,
                    callers, effect, job, ctx, sent, lastRank, interleaved,
                    scoped, quitEffect, quitDequeued, inputFailed, jobSent,
                    jobGot >>
    /\ UNCHANGED obs
    /\ UNCHANGED appVars

\* EffectValue::Send, line 106: state.lock().await
HandleSend(r) ==
    /\ pc[r] = "handle"
    /\ effect[r].kind = "Send"
    /\ MutexFree(state_guard)
    /\ state_guard' = r
    /\ pc' = [pc EXCEPT ![r] = "reduce"]
    /\ UNCHANGED << state, queue, receiver_guard, terminal, callers, effect,
                    job, ctx, sent, lastRank, burst, interleaved, scoped,
                    quitEffect, quitDequeued, inputFailed, lastMap, jobSent,
                    jobGot >>
    /\ UNCHANGED obs
    /\ UNCHANGED appVars

\* the number of RedrawUI events in a channel
NumRedraw(q) == Cardinality({ i \in 1..Len(q) : q[i].type = "RedrawUI" })

\* history of one reducer invocation
Reduced(r, res, action) ==
    /\ burst' = [burst EXCEPT
                    !.reduces = @ + 1,
                    !.sends = @ + (IF res.effect.kind = "Send" THEN 1 ELSE 0),
                    !.redraws = @ + (IF res.state # state THEN 1 ELSE 0),
                    !.queued = @ + NumRedraw(queue') - NumRedraw(queue)]
    /\ scoped' = IF ctx[r].head /\ ctx[r].via # <<>>
                 THEN [scoped EXCEPT
                          !.invoked = @ + 1,
                          !.pairs = @ \cup { << ctx[r].via, action >> }]
                 ELSE scoped
    /\ ctx' = [ctx EXCEPT ![r].head = FALSE]
    /\ lastMap' = IF Head(action) = "Child"
                  THEN [inner |-> IF Len(action) > 2 /\ action[2] = "Grand"
                                  THEN grandReduce(Tail(Tail(action))).effect
                                  ELSE EffectNone,
                        child |-> childReduce(state.child, Tail(action)).effect,
                        mapped |-> res.effect,
                        deep |-> Len(action) > 2 /\ action[2] = "Grand"]
                  ELSE NoMap

\* a handle that puts the follow-up action of a Send effect on the channel
\* instead of reducing it at once
ReduceRequeue(r) ==
    /\ pc[r] = "reduce"
    /\ LET action == effect[r].action
           res == reduce(state, action)
           q == IF res.state # state THEN send_event(queue, RedrawUI) ELSE queue
       IN  /\ state' = res.state
           /\ IF res.effect.kind = "Send"
              THEN /\ queue' = send_all(q, << res.effect.action >>, <<>>)
                   /\ effect' = [effect EXCEPT ![r] = EffectNone]
                   /\ pc' = [pc EXCEPT ![r] = "select"]
              ELSE /\ queue' = q
                   /\ effect' = [effect EXCEPT ![r] = res.effect]
                   /\ pc' = [pc EXCEPT ![r] = "handle"]
           /\ Reduced(r, res, action)
    /\ state_guard' = 0
    /\ UNCHANGED << receiver_guard, terminal, callers, job, sent, lastRank,
                    interleaved, quitEffect, quitDequeued, inputFailed,
                    jobSent, jobGot >>
    /\ UNCHANGED obs
    /\ UNCHANGED appVars

\* a handle that compares State once per Dispatch: it sends RedrawUI when the
\* chain has ended, if State differs from State before the Dispatch
ReducePerDispatch(r) ==
    /\ pc[r] = "reduce"
    /\ LET action == effect[r].action
           res == reduce(state, action)
       IN  /\ state' = res.state
           /\ queue' = IF res.effect.kind # "Send" /\ res.state # burst.before
                       THEN send_event(queue, RedrawUI)
                       ELSE queue
           /\ effect' = [effect EXCEPT ![r] = res.effect]
           /\ Reduced(r, res, action)
    /\ state_guard' = 0
    /\ pc' = [pc EXCEPT ![r] = "handle"]
    /\ UNCHANGED << receiver_guard, terminal, callers, job, sent, lastRank,
                    interleaved, quitEffect, quitDequeued, inputFailed,
                    jobSent, jobGot >>
    /\ UNCHANGED obs
    /\ UNCHANGED appVars

\* a handle that sends RedrawUI after every reducer call
ReduceAlwaysRedraw(r) ==
    /\ pc[r] = "reduce"
    /\ LET action == effect[r].action
           res == reduce(state, action)
       IN  /\ state' = res.state
           /\ queue' = send_event(queue, RedrawUI)
           /\ effect' = [effect EXCEPT ![r] = res.effect]
           /\ Reduced(r, res, action)
    /\ state_guard' = 0
    /\ pc' = [pc EXCEPT ![r] = "handle"]
    /\ UNCHANGED << receiver_guard, terminal, callers, job, sent, lastRank,
                    interleaved, quitEffect, quitDequeued, inputFailed,
                    jobSent, jobGot >>
    /\ UNCHANGED obs
    /\ UNCHANGED appVars

\* EffectValue::Send, lines 107-114: clone the state, reduce, compare, send
\* RedrawUI if it changed, drop the lock, handle the returned effect
Reduce(r) ==
    /\ pc[r] = "reduce"
    /\ LET action == effect[r].action
           res == reduce(state, action)
       IN  /\ state' = res.state
           /\ queue' = IF res.state # state THEN send_event(queue, RedrawUI)
                       ELSE queue
           /\ effect' = [effect EXCEPT ![r] = res.effect]
           /\ Reduced(r, res, action)
    /\ state_guard' = 0
    /\ pc' = [pc EXCEPT ![r] = "handle"]
    /\ UNCHANGED << receiver_guard, terminal, callers, job, sent, lastRank,
                    interleaved, quitEffect, quitDequeued, inputFailed,
                    jobSent, jobGot >>
    /\ obs' = [obs EXCEPT
                  !.refused = @ \/ (/\ effect[r].action
                                         = <<"Chat", "TextField", "Delegated",
                                             "Commit">>
                                    /\ state.chat.is_streaming)]
    /\ UNCHANGED appVars

\* a handle that puts StoreEvent::Quit in front of the events already sent
HandleQuitFront(r) ==
    /\ pc[r] = "handle"
    /\ effect[r].kind = "Quit"
    /\ queue' = send_event_lifo(queue, QuitEvent)
    /\ quitEffect' = TRUE
    /\ pc' = [pc EXCEPT ![r] = "select"]
    /\ burst' = NoBurst
    /\ lastMap' = NoMap
    /\ UNCHANGED << state, state_guard, receiver_guard, terminal, callers,
                    effect, job, ctx, sent, lastRank, interleaved, scoped,
                    quitDequeued, inputFailed, jobSent, jobGot >>
    /\ UNCHANGED obs
    /\ UNCHANGED appVars

\* EffectValue::Quit: send_event(StoreEvent::Quit)
HandleQuit(r) ==
    /\ pc[r] = "handle"
    /\ effect[r].kind = "Quit"
    /\ queue' = send_event(queue, QuitEvent)
    /\ quitEffect' = TRUE
    /\ pc' = [pc EXCEPT ![r] = "select"]
    /\ burst' = NoBurst
    /\ lastMap' = NoMap
    /\ UNCHANGED << state, state_guard, receiver_guard, terminal, callers,
                    effect, job, ctx, sent, lastRank, interleaved, scoped,
                    quitDequeued, inputFailed, jobSent, jobGot >>
    /\ UNCHANGED obs
    /\ UNCHANGED appVars

\* EffectValue::Async: job(Box::new(event_sender)).await, the job starts
\* inside handle and handle waits for it
HandleAsync(r) ==
    /\ pc[r] = "handle"
    /\ effect[r].kind = "Async"
    /\ job' = [job EXCEPT ![r] = [script |-> effect[r].job,
                                  maps |-> effect[r].maps]]
    /\ pc' = [pc EXCEPT ![r] = "job"]
    /\ UNCHANGED << state, state_guard, queue, receiver_guard, terminal,
                    callers, effect, ctx, sent, lastRank, burst, interleaved,
                    scoped, quitEffect, quitDequeued, inputFailed, lastMap,
                    jobSent, jobGot >>
    /\ UNCHANGED obs
    /\ UNCHANGED appVars

\* a job sender that puts its event at the front of the channel
JobSendFront(r) ==
    /\ pc[r] = "job"
    /\ job[r].script # <<>>
    /\ IsSend(Head(job[r].script))
    /\ LET action == Head(job[r].script)
           delivered == ActionMapperSend(job[r].maps, action)
       IN  /\ queue' = Tagged(send_all(<<>>, delivered, <<>>),
                               Len(delivered), Len(jobSent) + 1) \o queue
           /\ jobSent' = Append(jobSent, action)
           /\ jobGot' = jobGot \o delivered
    /\ job' = [job EXCEPT ![r].script = Tail(@)]
    /\ obs' = Sending(obs, "mixed")
    /\ UNCHANGED << state, state_guard, receiver_guard, terminal, callers, pc,
                    effect, ctx, sent, lastRank, burst, interleaved, scoped,
                    quitEffect, quitDequeued, inputFailed, lastMap >>
    /\ UNCHANGED appVars

\* the awaited job calls send on the sender it was given
JobSend(r) ==
    /\ pc[r] = "job"
    /\ job[r].script # <<>>
    /\ IsSend(Head(job[r].script))
    /\ LET action == Head(job[r].script)
           delivered == ActionMapperSend(job[r].maps, action)
       IN  /\ queue' = Tagged(send_all(queue, delivered, <<>>),
                               Len(delivered), Len(jobSent) + 1)
           /\ jobSent' = Append(jobSent, action)
           /\ jobGot' = jobGot \o delivered
    /\ job' = [job EXCEPT ![r].script = Tail(@)]
    /\ obs' = Sending(obs, "mixed")
    /\ UNCHANGED << state, state_guard, receiver_guard, terminal, callers, pc,
                    effect, ctx, sent, lastRank, burst, interleaved, scoped,
                    quitEffect, quitDequeued, inputFailed, lastMap >>
    /\ UNCHANGED appVars

\* the external work the awaited job waits for completes
JobAwait(r) ==
    /\ pc[r] = "job"
    /\ job[r].script # <<>>
    /\ Head(job[r].script) = Await
    /\ job' = [job EXCEPT ![r].script = Tail(@)]
    /\ UNCHANGED << state, state_guard, queue, receiver_guard, terminal,
                    callers, pc, effect, ctx, sent, lastRank, burst,
                    interleaved, scoped, quitEffect, quitDequeued,
                    inputFailed, lastMap, jobSent, jobGot >>
    /\ UNCHANGED obs
    /\ UNCHANGED appVars

\* a handle that may drop the job before it has finished
JobDoneEarly(r) ==
    /\ pc[r] = "job"
    /\ job' = [job EXCEPT ![r] = NoJob]
    /\ pc' = [pc EXCEPT ![r] = "select"]
    /\ burst' = NoBurst
    /\ lastMap' = NoMap
    /\ jobSent' = <<>>
    /\ jobGot' = <<>>
    /\ UNCHANGED << state, state_guard, queue, receiver_guard, terminal,
                    callers, effect, ctx, sent, lastRank, interleaved,
                    scoped, quitEffect, quitDequeued, inputFailed >>
    /\ UNCHANGED obs
    /\ UNCHANGED appVars

\* the awaited job returns: handle, internal_send and the select! arm return
JobDone(r) ==
    /\ pc[r] = "job"
    /\ job[r].script = <<>>
    /\ job' = [job EXCEPT ![r] = NoJob]
    /\ pc' = [pc EXCEPT ![r] = "select"]
    /\ burst' = NoBurst
    /\ lastMap' = NoMap
    /\ jobSent' = <<>>
    /\ jobGot' = <<>>
    /\ UNCHANGED << state, state_guard, queue, receiver_guard, terminal,
                    callers, effect, ctx, sent, lastRank, interleaved,
                    scoped, quitEffect, quitDequeued, inputFailed >>
    /\ UNCHANGED obs
    /\ UNCHANGED appVars

(***************************************************************************)
(* Senders used from outside the run loop                                  *)
(***************************************************************************)
\* a send that calls the reducer at once, as the synchronous store does
StoreSendDirect ==
    /\ sent < MaxSends
    /\ \E action \in SendActions :
          /\ queue' = queue
          /\ state' = reduce(state, action).state
          /\ obs' = [Sending(obs, IF action = <<"Child", "Ping">> THEN "Ping"
                                  ELSE "mixed")
                        EXCEPT !.lateSend = @ \/ quitDequeued]
    /\ sent' = sent + 1
    /\ UNCHANGED << state_guard, receiver_guard, terminal, callers, pc,
                    effect, job, ctx, lastRank, burst, interleaved, scoped,
                    quitEffect, quitDequeued, inputFailed, lastMap, jobSent,
                    jobGot >>
    /\ UNCHANGED appVars

\* ActionSender::send for StoreEngine
StoreSend ==
    /\ sent < MaxSends
    /\ \E action \in SendActions :
          /\ queue' = send_all(queue, << action >>, <<>>)
          /\ obs' = [Sending(obs, IF action = <<"Child", "Ping">> THEN "Ping"
                                  ELSE "mixed")
                        EXCEPT !.lateSend = @ \/ quitDequeued]
    /\ sent' = sent + 1
    /\ UNCHANGED << state, state_guard, receiver_guard, terminal, callers, pc,
                    effect, job, ctx, lastRank, burst, interleaved, scoped,
                    quitEffect, quitDequeued, inputFailed, lastMap, jobSent,
                    jobGot >>
    /\ UNCHANGED appVars

\* ActionSender::send for an ActionMapper whose parent is the engine and whose
\* map is Action::Child
ScopedSend ==
    /\ sent < MaxSends
    /\ \E action \in ScopedActions :
          /\ queue' = send_all(queue, ActionMapperSend(<< "Child" >>, action),
                               action)
          /\ obs' = [Sending(obs, IF action = <<"Increment">> THEN "Increment"
                                  ELSE "mixed")
                        EXCEPT !.lateSend = @ \/ quitDequeued]
    /\ sent' = sent + 1
    /\ scoped' = [scoped EXCEPT !.sent = @ + 1]
    /\ UNCHANGED << state, state_guard, receiver_guard, terminal, callers, pc,
                    effect, job, ctx, lastRank, burst, interleaved,
                    quitEffect, quitDequeued, inputFailed, lastMap, jobSent,
                    jobGot >>
    /\ UNCHANGED appVars

\* ActionSender::send for an ActionMapper with map Action::Grand whose parent
\* is the ActionMapper with map Action::Child whose parent is the engine
GrandSend ==
    /\ sent < MaxSends
    /\ \E action \in GrandActions :
          /\ queue' = send_all(queue,
                               ActionMapperSend(<< "Grand", "Child" >>, action),
                               << "Grand" >> \o action)
          /\ obs' = [Sending(obs, "mixed") EXCEPT
                        !.lateSend = @ \/ quitDequeued]
    /\ sent' = sent + 1
    /\ scoped' = [scoped EXCEPT !.sent = @ + 1]
    /\ UNCHANGED << state, state_guard, receiver_guard, terminal, callers, pc,
                    effect, job, ctx, lastRank, burst, interleaved,
                    quitEffect, quitDequeued, inputFailed, lastMap, jobSent,
                    jobGot >>
    /\ UNCHANGED appVars

Next ==
    \/ \E r \in Runners :
          \/ RunStart(r)
          \/ InitialRedraw(r)
          \/ RecvRedraw(r)
          \/ RecvAction(r)
          \/ RecvQuit(r)
          \/ PollInputOk(r)
          \/ PollInputFail(r)
          \/ HandleNone(r)
          \/ HandleSend(r)
          \/ Reduce(r)
          \/ HandleQuit(r)
          \/ HandleAsync(r)
          \/ JobSend(r)
          \/ JobAwait(r)
          \/ JobDone(r)
    \/ StoreSend
    \/ ScopedSend
    \/ GrandSend

Spec == Init /\ [][Next]_vars

SpecConcurrent == InitConcurrent /\ [][Next]_vars

(***************************************************************************)
(* The run loop under the scheduling the code gives it: a task that can    *)
(* take a step of run or handle takes it, a job that has a send to make    *)
(* makes it.  Nothing makes the external work a job awaits complete, the   *)
(* terminal produce input, or another task call send.                      *)
(***************************************************************************)
Fairness ==
    /\ WF_vars(RunStart(1))
    /\ WF_vars(InitialRedraw(1))
    /\ WF_vars(RecvRedraw(1) \/ RecvAction(1) \/ RecvQuit(1))
    /\ WF_vars(HandleNone(1))
    /\ WF_vars(HandleSend(1))
    /\ WF_vars(Reduce(1))
    /\ WF_vars(HandleQuit(1))
    /\ WF_vars(HandleAsync(1))
    /\ WF_vars(JobSend(1))
    /\ WF_vars(JobDone(1))

FairSpec == Init /\ [][Next]_vars /\ Fairness

(***************************************************************************)
(* The engine running the chat and conversation features: actions are sent *)
(* to them from outside the loop, and the chat-completion job an Async     *)
(* effect carries waits for the answer to its request and for the items of *)
(* the completion stream.                                                  *)
(***************************************************************************)
\* ActionSender::send for StoreEngine, with an action of the features
FeatureSend ==
    /\ sent < MaxFeatureSends
    /\ \E action \in FeatureActions :
          queue' = send_all(queue, << action >>, <<>>)
    /\ obs' = [Sending(obs, "mixed") EXCEPT !.lateSend = @ \/ quitDequeued]
    /\ sent' = sent + 1
    /\ UNCHANGED << state, state_guard, receiver_guard, terminal, callers, pc,
                    effect, job, ctx, lastRank, burst, interleaved, scoped,
                    quitEffect, quitDequeued, inputFailed, lastMap, jobSent,
                    jobGot >>
    /\ UNCHANGED appVars

\* send_message_streaming(message).await returns inside the awaited job:
\* Ok(stream); or Err, for which the job of conversation makes its error
\* sends and returns, and the job of chat panics in unwrap, inside run
JobRequest(r) ==
    /\ pc[r] = "job"
    /\ job[r].script # <<>>
    /\ Head(job[r].script)[1] = "request"
    /\ LET feature == Head(job[r].script)[2]
       IN  \/ /\ job' = [job EXCEPT ![r].script = << Stream(feature, 0) >>]
              /\ UNCHANGED << pc, panicked >>
           \/ /\ feature = "conversation"
              /\ job' = [job EXCEPT ![r].script = ErrorSends]
              /\ UNCHANGED << pc, panicked >>
           \/ /\ feature = "chat"
              /\ job' = [job EXCEPT ![r].script = <<>>]
              /\ pc' = [pc EXCEPT ![r] = "panicked"]
              /\ panicked' = "chat"
    /\ UNCHANGED << state, state_guard, queue, receiver_guard, terminal,
                    callers, effect, ctx, sent, lastRank, burst, interleaved,
                    scoped, quitEffect, quitDequeued, inputFailed, lastMap,
                    jobSent, jobGot >>
    /\ UNCHANGED obs
    /\ UNCHANGED << auth, chat_loader, stream, called, entry, view >>

\* stream.next().await returns inside the awaited job: a chunk, which the
\* job pushes and answers with UpdatePartial; or the end of the stream, after
\* which it sends the CommitMessage actions and StoppedStreaming; or, in
\* conversation, an error
JobChunk(r) ==
    /\ pc[r] = "job"
    /\ job[r].script # <<>>
    /\ Head(job[r].script)[1] = "stream"
    /\ LET feature == Head(job[r].script)[2]
           chunks == Len(Head(job[r].script)) - 2
       IN  \/ /\ chunks < MaxChunks
              /\ job' = [job EXCEPT ![r].script =
                            << <<"UpdatePartial">>,
                               Stream(feature, chunks + 1) >>]
           \/ job' = [job EXCEPT ![r].script =
                         Commits(chunks) \o << <<"StoppedStreaming">> >>]
           \/ /\ feature = "conversation"
              /\ job' = [job EXCEPT ![r].script =
                            Commits(chunks) \o ErrorSends]
    /\ UNCHANGED << state, state_guard, queue, receiver_guard, terminal,
                    callers, pc, effect, ctx, sent, lastRank, burst,
                    interleaved, scoped, quitEffect, quitDequeued,
                    inputFailed, lastMap, jobSent, jobGot >>
    /\ UNCHANGED obs
    /\ UNCHANGED appVars

NextChat ==
    \/ RunStart(1)
    \/ InitialRedraw(1)
    \/ RecvRedraw(1)
    \/ RecvAction(1)
    \/ HandleNone(1)
    \/ HandleSend(1)
    \/ Reduce(1)
    \/ HandleAsync(1)
    \/ JobSend(1)
    \/ JobAwait(1)
    \/ JobRequest(1)
    \/ JobChunk(1)
    \/ JobDone(1)
    \/ FeatureSend

SpecChat == Init /\ [][NextChat]_vars

(***************************************************************************)
(* Calls of the feature reducers, and the steps of the chat-completion job *)
(***************************************************************************)
\* the engine calls AuthReducer::reduce with some action
AuthReduce ==
    /\ panicked = ""
    /\ \E action \in AuthActions, childEffect \in ChildEffects :
          LET res == AuthReducer(auth, action, childEffect)
          IN  /\ auth' = res.state
              /\ panicked' = IF res.panic THEN "auth" ELSE ""
              /\ called' = [feature |-> "auth", action |-> action,
                            before |-> auth.configuration,
                            effect |-> res.effect]
    /\ UNCHANGED << chat_loader, stream, entry, view >>
    /\ UNCHANGED engineVars

\* the engine calls chat_loader::Feature::reduce with some action
ChatLoaderReduce ==
    /\ panicked = ""
    /\ \E action \in ChatLoaderActions, childEffect \in ChildEffects,
          configured \in BOOLEAN :
          LET res == ChatLoaderFeature(chat_loader, action, childEffect,
                                       configured)
          IN  /\ chat_loader' = res.state
              /\ panicked' = IF res.panic THEN "chat_loader" ELSE ""
              /\ called' = [feature |-> "chat_loader", action |-> action,
                            before |-> chat_loader, effect |-> res.effect]
    /\ UNCHANGED << auth, stream, entry, view >>
    /\ UNCHANGED engineVars

\* the job starts: it returns at once on an empty message, otherwise it
\* sends BeganStreaming and CommitMessage(user_message) and awaits
\* send_message_streaming
StreamStart ==
    /\ panicked = ""
    /\ stream.at \in {"idle", "done"}
    /\ \E feature \in StreamFeatures, empty \in BOOLEAN :
          stream' = IF empty
                    THEN [NoStream EXCEPT !.feature = feature, !.at = "done"]
                    ELSE [NoStream EXCEPT
                             !.feature = feature,
                             !.at = "request",
                             !.out = << <<"BeganStreaming">>,
                                        <<"CommitMessage">> >>]
    /\ UNCHANGED << auth, chat_loader, panicked, called, entry,
                    view >>
    /\ UNCHANGED engineVars

\* send_message_streaming(message).await returns: Ok(stream), or Err, which
\* conversation turns into its error sends and chat unwraps
StreamRequest ==
    /\ panicked = ""
    /\ stream.at = "request"
    /\ \/ /\ stream' = [stream EXCEPT !.at = "chunks"]
          /\ UNCHANGED panicked
       \/ /\ stream.feature = "conversation"
          /\ stream' = [stream EXCEPT !.at = "done", !.failure = "request",
                                      !.out = @ \o ErrorSends]
          /\ UNCHANGED panicked
       \/ /\ stream.feature = "chat"
          /\ stream' = [stream EXCEPT !.at = "aborted", !.failure = "request"]
          /\ panicked' = "chat"
    /\ UNCHANGED << auth, chat_loader, called, entry, view >>
    /\ UNCHANGED engineVars

\* a job whose chunk-error arm returns without sending StoppedStreaming
StreamChunkNoStop ==
    /\ panicked = ""
    /\ stream.at = "chunks"
    /\ \/ /\ stream.chunks < MaxChunks
          /\ stream' = [stream EXCEPT !.chunks = @ + 1,
                                      !.out = Append(@, <<"UpdatePartial">>)]
       \/ stream' = [stream EXCEPT
                        !.at = "done",
                        !.out = @ \o Commits(stream.chunks)
                                  \o << <<"StoppedStreaming">> >>]
       \/ /\ stream.feature = "conversation"
          /\ stream' = [stream EXCEPT
                           !.at = "done", !.failure = "chunk",
                           !.out = @ \o Commits(stream.chunks)
                                     \o << Head(ErrorSends) >>]
    /\ UNCHANGED << auth, chat_loader, panicked, called, entry,
                    view >>
    /\ UNCHANGED engineVars

\* stream.next().await returns: a chunk, the end of the stream, or, in
\* conversation, an error
StreamChunk ==
    /\ panicked = ""
    /\ stream.at = "chunks"
    /\ \/ /\ stream.chunks < MaxChunks
          /\ stream' = [stream EXCEPT !.chunks = @ + 1,
                                      !.out = Append(@, <<"UpdatePartial">>)]
       \/ stream' = [stream EXCEPT
                        !.at = "done",
                        !.out = @ \o Commits(stream.chunks)
                                  \o << <<"StoppedStreaming">> >>]
       \/ /\ stream.feature = "conversation"
          /\ stream' = [stream EXCEPT
                           !.at = "done", !.failure = "chunk",
                           !.out = @ \o Commits(stream.chunks) \o ErrorSends]
    /\ UNCHANGED << auth, chat_loader, panicked, called, entry,
                    view >>
    /\ UNCHANGED engineVars

NextApp ==
    \/ AuthReduce
    \/ ChatLoaderReduce
    \/ StreamStart
    \/ StreamRequest
    \/ StreamChunk

SpecApp == InitApp /\ [][NextApp]_vars

(***************************************************************************)
(* The entry feature under the engine: a terminal event or an action sent  *)
(* by a job is dispatched, and handle follows the Send chain to its end,   *)
(* reducing each action in turn.                                           *)
(***************************************************************************)
\* entry::State as the reducer sees it
EntryState ==
    [navigation |-> entry.navigation, chat |-> chat_loader, auth |-> auth,
     size |-> entry.size]

\* the reducer invocation handle is about to make in the chain in progress
PendingInvocation == [action |-> entry.effect.action, state |-> EntryState]

\* the reducer invocations already made in the chain in progress
Invoked == { entry.path[i] : i \in 1..Len(entry.path) }

\* run receives a terminal event and dispatches Action::Event(e)
EntryDispatch ==
    /\ panicked = ""
    /\ entry.effect.kind # "Send"
    /\ entry.dispatched < MaxEvents
    /\ \E e \in TerminalEvents :
          entry' = [entry EXCEPT !.event = e,
                                 !.effect = EffectSend(<<"Event">>),
                                 !.path = <<>>,
                                 !.dispatched = @ + 1]
    /\ UNCHANGED << auth, chat_loader, stream, panicked, called, view >>
    /\ UNCHANGED engineVars

\* run receives an action a job has sent and dispatches it
EntryJobSend ==
    /\ panicked = ""
    /\ entry.effect.kind # "Send"
    /\ \E action \in entry.jobs :
          entry' = [entry EXCEPT !.event = NoEvent,
                                 !.effect = EffectSend(action),
                                 !.path = <<>>,
                                 !.jobs = @ \ {action}]
    /\ UNCHANGED << auth, chat_loader, stream, panicked, called, view >>
    /\ UNCHANGED engineVars

\* handle's Send arm: the action is reduced and handle goes on with the
\* effect returned; an Async effect leaves the actions of its job to be sent
EntryHandleSend ==
    /\ panicked = ""
    /\ entry.effect.kind = "Send"
    /\ PendingInvocation \notin Invoked
    /\ \E childEffect \in NestedEffects(entry.effect.action),
          configured \in BOOLEAN :
          LET res == EntryFeature(EntryState, entry.effect.action, entry.event,
                                  childEffect, configured)
              sends == IF res.effect.kind = "Async"
                       THEN { ActionMapperSend(res.effect.maps,
                                               res.effect.job[i])[1] :
                                 i \in 1..Len(res.effect.job) }
                       ELSE {}
          IN  /\ auth' = res.state.auth
              /\ chat_loader' = res.state.chat
              /\ panicked' = res.panic
              /\ entry' = [entry EXCEPT
                              !.navigation = res.state.navigation,
                              !.size = res.state.size,
                              !.effect = res.effect,
                              !.path = Append(@, PendingInvocation),
                              !.jobs = @ \cup sends]
    /\ UNCHANGED << stream, called, view >>
    /\ UNCHANGED engineVars

\* entry::State after the i-th reducer invocation of the chain in progress
StateAfter(i) ==
    IF i < Len(entry.path) THEN entry.path[i + 1].state ELSE EntryState

\* the actions produced and not yet reduced: the one handle is about to
\* reduce and the ones jobs have sent
Produced ==
    entry.jobs
    \cup (IF entry.effect.kind = "Send" THEN {entry.effect.action} ELSE {})

NextEntry ==
    \/ EntryDispatch
    \/ EntryJobSend
    \/ EntryHandleSend

SpecEntry == InitApp /\ [][NextEntry]_vars

(***************************************************************************)
(* The scroll view of conversation and chat (the two reducers have the     *)
(* same ScrollViewDimentionsChanged arm and the same test in ui).  The     *)
(* redraw callback renders, and sends the rendered dimensions when they    *)
(* differ from the stored ones; the engine reduces what is sent and queues *)
(* a RedrawUI when State has changed.                                      *)
(***************************************************************************)
\* u16::saturating_sub
SaturatingSub(a, b) == IF a > b THEN a - b ELSE 0

\* ScrollViewDiementions: the heights of the content and of the frame
Dimentions ==
    [scroll_size : 0..MaxHeight, frame_size : 1..MaxHeight]

\* scroll_view_dimentions: None
NoDimentions == [scroll_size |-> 0, frame_size |-> 0]

\* ScrollViewDiementions::ensure_within_bounds, on the y of the offset
ensure_within_bounds(d, offset) ==
    IF offset < SaturatingSub(d.scroll_size, d.frame_size) THEN offset
    ELSE SaturatingSub(d.scroll_size, d.frame_size)

\* scroll_to_bottom: the offset is set beyond every content
Bottom == MaxHeight + 1

\* a reducer without the early return on equal dimensions
scrollReduceAlways(st, action) ==
    CASE action[1] = "ScrollOffsetChanged" -> [st EXCEPT !.offset = action[2]]
      [] action[1] = "ScrollViewDimentionsChanged" ->
            [scroll_view_dimentions |-> action[2],
             offset |-> ensure_within_bounds(action[2], Bottom)]

\* Feature::reduce, arms ScrollOffsetChanged and ScrollViewDimentionsChanged
scrollReduce(st, action) ==
    CASE action[1] = "ScrollOffsetChanged" -> [st EXCEPT !.offset = action[2]]
      [] action[1] = "ScrollViewDimentionsChanged" ->
            IF action[2] = st.scroll_view_dimentions THEN st
            ELSE [scroll_view_dimentions |-> action[2],
                  offset |-> ensure_within_bounds(action[2], Bottom)]

\* State::default, the first redraw of run waiting, some dimensions rendered
InitScroll ==
    /\ InitView
    /\ \E d \in Dimentions :
          view = [feature |-> "scroll",
                  state |-> [scroll_view_dimentions |-> NoDimentions,
                             offset |-> 0],
                  rendered |-> d,
                  queue |-> << <<"RedrawUI">> >>,
                  extra |-> 0, resizes |-> 0, scrolls |-> 0,
                  last |-> [action |-> <<>>,
                            before |-> [scroll_view_dimentions |-> NoDimentions,
                                        offset |-> 0],
                            after |-> [scroll_view_dimentions |-> NoDimentions,
                                       offset |-> 0],
                            redraw |-> FALSE]]

\* the redraw callback: ui renders and compares
ScrollRedraw ==
    /\ view.queue # <<>>
    /\ Head(view.queue) = <<"RedrawUI">>
    /\ view' = [view EXCEPT
                   !.queue = Tail(@)
                       \o (IF view.rendered # view.state.scroll_view_dimentions
                           THEN << <<"ScrollViewDimentionsChanged",
                                     view.rendered>> >>
                           ELSE <<>>)]
    /\ UNCHANGED << engineVars, routingVars >>

\* the engine receives an action, reduces it and compares State
ScrollDispatch ==
    /\ view.queue # <<>>
    /\ Head(view.queue) # <<"RedrawUI">>
    /\ LET action == Head(view.queue)
           after == scrollReduce(view.state, action)
           changed == after # view.state
       IN  view' = [view EXCEPT
                       !.state = after,
                       !.queue = Tail(@) \o (IF changed
                                             THEN << <<"RedrawUI">> >>
                                             ELSE <<>>),
                       !.extra = @ + (IF changed
                                         /\ action[1]
                                               = "ScrollViewDimentionsChanged"
                                      THEN 1 ELSE 0),
                       !.last = [action |-> action, before |-> view.state,
                                 after |-> after, redraw |-> changed]]
    /\ UNCHANGED << engineVars, routingVars >>

\* the terminal is resized or the content grows: another State change has
\* queued a RedrawUI and the next rendering has other dimensions
ScrollResize ==
    /\ view.resizes < MaxResizes
    /\ \E d \in Dimentions \ {view.rendered} :
          view' = [view EXCEPT !.rendered = d,
                               !.queue = Append(@, <<"RedrawUI">>),
                               !.resizes = @ + 1]
    /\ UNCHANGED << engineVars, routingVars >>

\* the scroll view sends ScrollOffsetChanged
ScrollOffset ==
    /\ view.scrolls < MaxScrolls
    /\ \E pos \in 0..MaxHeight :
          view' = [view EXCEPT
                      !.queue = Append(@, <<"ScrollOffsetChanged", pos>>),
                      !.scrolls = @ + 1]
    /\ UNCHANGED << engineVars, routingVars >>

NextScroll ==
    \/ ScrollRedraw
    \/ ScrollDispatch
    \/ ScrollResize
    \/ ScrollOffset

SpecScroll == InitScroll /\ [][NextScroll]_vars

(***************************************************************************)
(* The list feature (src/src/list.rs).  items is items.len(), selected is  *)
(* list_state.selected(), NoIndex for None.  items.len() - 1 on an empty   *)
(* list overflows usize: a build with overflow checks panics there, one    *)
(* without wraps to usize::MAX, and min(selected + 1, usize::MAX) is then  *)
(* selected + 1.                                                           *)
(***************************************************************************)
NoIndex == -1

ListKeys == {"j", "k", " ", "Enter", "x"}

\* ListFeature::reduce for Event(Key(code)) with kind Press; checked tells
\* whether the build checks arithmetic overflow
listReduce(st, code, checked) ==
    CASE code = "j" ->
            IF st.selected = NoIndex
            THEN [state |-> [st EXCEPT !.selected = 0], effect |-> EffectNone,
                  underflow |-> FALSE, panic |-> FALSE]
            ELSE IF st.items = 0
            THEN [state |-> IF checked THEN st
                            ELSE [st EXCEPT !.selected = @ + 1],
                  effect |-> EffectNone,
                  underflow |-> TRUE, panic |-> checked]
            ELSE [state |-> [st EXCEPT
                                !.selected = IF @ + 1 < st.items - 1
                                             THEN @ + 1 ELSE st.items - 1],
                  effect |-> EffectNone,
                  underflow |-> FALSE, panic |-> FALSE]
      [] code = "k" ->
            [state |-> [st EXCEPT
                           !.selected = IF @ = NoIndex THEN 0
                                        ELSE (IF @ > 1 THEN @ ELSE 1) - 1],
             effect |-> EffectNone, underflow |-> FALSE, panic |-> FALSE]
      [] code = " " ->
            [state |-> st,
             effect |-> IF st.selected = NoIndex THEN EffectNone
                        ELSE EffectSend(<<"Delegated", "Toogle", st.selected>>),
             underflow |-> FALSE, panic |-> FALSE]
      [] code = "Enter" ->
            [state |-> st,
             effect |-> IF st.selected = NoIndex THEN EffectNone
                        ELSE EffectSend(<<"Delegated", "Enter", st.selected>>),
             underflow |-> FALSE, panic |-> FALSE]
      [] OTHER ->
            [state |-> st, effect |-> EffectSend(<<"Delegated", "Noop">>),
             underflow |-> FALSE, panic |-> FALSE]

\* list::State::new(items) for some items
InitList ==
    /\ InitView
    /\ \E n \in 0..MaxItems :
          view = [feature |-> "list",
                  state |-> [items |-> n, selected |-> NoIndex],
                  keys |-> 0, underflow |-> FALSE, panicked |-> FALSE,
                  last |-> [code |-> "", before |-> NoIndex,
                            effect |-> EffectNone]]

\* the effect sends Delegated(Enter(idx)) or Delegated(Toogle(idx))
DelegatesIndex(e) ==
    IF e.kind = "Send" THEN e.action[2] \in {"Enter", "Toogle"} ELSE FALSE

\* a key press reaches the list
ListKeyPress ==
    /\ ~view.panicked
    /\ view.keys < MaxKeys
    /\ ~DelegatesIndex(view.last.effect)
    /\ \E code \in ListKeys, checked \in BOOLEAN :
          LET res == listReduce(view.state, code, checked)
          IN  view' = [view EXCEPT
                          !.state = res.state,
                          !.keys = @ + 1,
                          !.underflow = @ \/ res.underflow,
                          !.panicked = res.panic,
                          !.last = [code |-> code,
                                    before |-> view.state.selected,
                                    effect |-> res.effect]]
    /\ UNCHANGED << engineVars, routingVars >>

\* the parent reduces Delegated(Enter(idx)) or Delegated(Toogle(idx)); for
\* Enter it indexes items[idx]
ListDelegated ==
    /\ ~view.panicked
    /\ DelegatesIndex(view.last.effect)
    /\ view' = [view EXCEPT
                   !.panicked = /\ view.last.effect.action[2] = "Enter"
                                /\ view.last.effect.action[3]
                                      >= view.state.items,
                   !.last.effect = EffectNone]
    /\ UNCHANGED << engineVars, routingVars >>

NextList ==
    \/ ListKeyPress
    \/ ListDelegated

SpecList == InitList /\ [][NextList]_vars

(***************************************************************************)
(* The conversation list (src/src/app/conversation_list.rs).  An entry is  *)
(* NewMessage or the id of a ConversationItem, 1 or more; conversations is *)
(* the list::State over the entries.  A key press and the actions it leads *)
(* to are handled one after the other before the next action is received.  *)
(***************************************************************************)
NewMessage == 0

\* ConversationMetadata: the list of the stored conversations
ConversationMetadata == { [i \in 1..n |-> i] : n \in 0..MaxItems }

\* UpdateList puts NewMessage in front of the items at the end instead
UpdatedItemsLast(metadata) == metadata \o << NewMessage >>

\* all_items of UpdateList
UpdatedItems(metadata) == << NewMessage >> \o metadata

\* the list::State of conversations as listReduce takes it
AsListState(conversations) ==
    [items |-> Len(conversations.items), selected |-> conversations.selected]

\* reduce for List(Delegated(Enter(idx))); readable tells whether the history
\* file of the item is read and parsed
conversationEnter(conversations, idx, readable) ==
    IF idx = 0 THEN [outcome |-> "NewConversation", panic |-> ""]
    ELSE IF idx >= Len(conversations.items)
    THEN [outcome |-> "", panic |-> "index"]
    ELSE IF conversations.items[idx + 1] = NewMessage
    THEN [outcome |-> "", panic |-> "filtered"]
    ELSE [outcome |-> IF readable THEN "Select" ELSE "None", panic |-> ""]

\* State::new: conversations is list::State::default()
InitConversationList ==
    /\ InitView
    /\ view = [feature |-> "conversation_list",
               conversations |-> [items |-> <<>>, selected |-> NoIndex],
               inbox |-> <<>>, reloads |-> 0, keys |-> 0, updated |-> FALSE,
               pending |-> EffectNone, panicked |-> "",
               last |-> [action |-> <<>>, outcome |-> ""]]

\* no Send is left to handle and nothing has panicked
ConversationListIdle == view.panicked = "" /\ view.pending = EffectNone

\* Reload: the job reads the metadata and sends UpdateList
ConversationListReload ==
    /\ ConversationListIdle
    /\ view.reloads < MaxReloads
    /\ \E metadata \in ConversationMetadata :
          view' = [view EXCEPT
                      !.inbox = Append(@, metadata),
                      !.reloads = @ + 1,
                      !.last = [action |-> <<"Reload">>, outcome |-> ""]]
    /\ UNCHANGED << engineVars, routingVars >>

\* UpdateList(metadata)
ConversationListUpdateList ==
    /\ ConversationListIdle
    /\ view.inbox # <<>>
    /\ view' = [view EXCEPT
                   !.conversations = [items |-> UpdatedItems(Head(view.inbox)),
                                      selected |-> NoIndex],
                   !.inbox = Tail(@),
                   !.updated = TRUE,
                   !.last = [action |-> <<"UpdateList">>, outcome |-> ""]]
    /\ UNCHANGED << engineVars, routingVars >>

\* Event(e) is sent on as List(Event(e)), which the list reduces
ConversationListEvent ==
    /\ ConversationListIdle
    /\ view.keys < MaxKeys
    /\ \E code \in ListKeys, checked \in BOOLEAN :
          LET res == listReduce(AsListState(view.conversations), code, checked)
          IN  view' = [view EXCEPT
                          !.conversations.selected = res.state.selected,
                          !.keys = @ + 1,
                          !.pending = res.effect,
                          !.panicked = IF res.panic THEN "overflow" ELSE "",
                          !.last = [action |-> <<"Event", code>>,
                                    outcome |-> ""]]
    /\ UNCHANGED << engineVars, routingVars >>

\* List(Delegated(delegated))
ConversationListDelegated ==
    /\ view.panicked = ""
    /\ view.pending # EffectNone
    /\ \E readable \in BOOLEAN :
          LET delegated == view.pending.action
              res == CASE delegated[2] = "Noop" ->
                            [outcome |-> "Noop", panic |-> ""]
                       [] delegated[2] = "Enter" ->
                            conversationEnter(view.conversations, delegated[3],
                                              readable)
                       [] OTHER -> [outcome |-> "None", panic |-> ""]
          IN  view' = [view EXCEPT
                          !.pending = EffectNone,
                          !.panicked = res.panic,
                          !.last = [action |-> <<"List">> \o delegated,
                                    outcome |-> res.outcome]]
    /\ UNCHANGED << engineVars, routingVars >>

NextConversationList ==
    \/ ConversationListReload
    \/ ConversationListUpdateList
    \/ ConversationListEvent
    \/ ConversationListDelegated

SpecConversationList == InitConversationList /\ [][NextConversationList]_vars

(***************************************************************************)
(* The conversation feature's cursor, selection, history and partial       *)
(* (src/src/app/conversation.rs).  The content of a message is a sequence  *)
(* of characters, "x" for any character but the newline "n"; the display   *)
(* of a message is the sequence of the widths of its lines.  A row or a    *)
(* column is a usize, None of an Option<usize> is NoIndex.  The start and  *)
(* the ends of a Selection::Line are rows, written as positions of column  *)
(* 0.                                                                      *)
(***************************************************************************)
Newline == "n"

Chars == {"x", Newline}

\* into_paragraphs of one StyledText: the widths of the lines that
\* split_inclusive("\n") cuts content into; open is the width of the line
\* being read, NoIndex when no character of it was read
RECURSIVE PlainLinesFrom(_, _)
PlainLinesFrom(content, open) ==
    IF content = <<>>
    THEN IF open = NoIndex THEN <<>> ELSE << open >>
    ELSE IF Head(content) = Newline
    THEN << (IF open = NoIndex THEN 0 ELSE open) >>
            \o PlainLinesFrom(Tail(content), NoIndex)
    ELSE PlainLinesFrom(Tail(content), (IF open = NoIndex THEN 0 ELSE open) + 1)

PlainLines(content) == PlainLinesFrom(content, NoIndex)

\* the width of a line of a committed message
LineWidth == 1

\* what parse_markdown and into_paragraphs may make of a committed message:
\* up to MaxLines lines
Displays == { [i \in 1..n |-> LineWidth] : n \in 0..MaxLines }

\* ChatMessage::from_response_chunks: BeginResponse pushes a message with
\* empty content, Content appends delta to the last message
from_response_chunks(output, chunk) ==
    IF chunk = "Begin" THEN Append(output, <<>>)
    ELSE [output EXCEPT ![Len(output)] = Append(@, chunk)]

\* the lines of history followed by those of partial
RECURSIVE Flatten(_)
Flatten(messages) ==
    IF messages = <<>> THEN <<>>
    ELSE Head(messages).display \o Flatten(Tail(messages))

AllLines(st) == Flatten(st.history \o st.partial)

total_lines(st) == Len(AllLines(st))

line_width(st, idx) ==
    IF idx < total_lines(st) THEN AllLines(st)[idx + 1] ELSE NoIndex

CursorPosition(row, col) == [row |-> row, col |-> col]

\* Ord for CursorPosition: less
PositionLess(a, b) == a.row < b.row \/ (a.row = b.row /\ a.col < b.col)

NoSelection == [kind |-> "None"]

update_cursor(st) ==
    LET focused_line_width == line_width(st, st.cursor.row)
    IN  IF focused_line_width # NoIndex /\ focused_line_width < st.cursor.col
        THEN [st EXCEPT !.cursor.col = SaturatingSub(focused_line_width, 1)]
        ELSE st

\* the range always spans from the cursor to the cursor
compare_and_update_selectionCollapsed(cursor, selection) ==
    [selection EXCEPT !.range = [lo |-> cursor, hi |-> cursor]]

compare_and_update_selection(cursor, selection) ==
    [selection EXCEPT
        !.range = IF PositionLess(selection.start, cursor)
                  THEN [lo |-> selection.start, hi |-> cursor]
                  ELSE IF selection.start = cursor
                  THEN [lo |-> cursor, hi |-> cursor]
                  ELSE [lo |-> cursor, hi |-> selection.start]]

update_selection(st) ==
    CASE st.selection.kind = "Line" ->
            [st EXCEPT !.selection =
                compare_and_update_selection(CursorPosition(st.cursor.row, 0), @)]
      [] st.selection.kind = "Char" ->
            [st EXCEPT !.selection = compare_and_update_selection(st.cursor, @)]
      [] OTHER -> st

\* moves::Feature::reduce for a pressed key: the Delegated it sends
MoveKeys == {"h", "j", "k", "l", "ctrl-u", "ctrl-d"}

movesReduce(code) ==
    CASE code = "ctrl-u" -> "UpMore"
      [] code = "ctrl-d" -> "DownMore"
      [] code = "h" -> "Left"
      [] code = "j" -> "Down"
      [] code = "k" -> "Up"
      [] code = "l" -> "Right"
      [] OTHER -> "Noop"

Min(a, b) == IF a < b THEN a ELSE b

\* reduce for Move(Delegated(delegated))
conversationMove(st, delegated) ==
    CASE delegated = "Up" ->
            update_selection([st EXCEPT !.cursor.row = SaturatingSub(@, 1)])
      [] delegated = "UpMore" ->
            update_selection([st EXCEPT !.cursor.row = SaturatingSub(@, 10)])
      [] delegated = "Down" ->
            update_selection([st EXCEPT !.cursor.row =
                Min(@ + 1, SaturatingSub(total_lines(st), 1))])
      [] delegated = "DownMore" ->
            update_selection([st EXCEPT !.cursor.row =
                Min(@ + 10, SaturatingSub(total_lines(st), 1))])
      [] delegated = "Left" ->
            update_selection([update_cursor(st) EXCEPT
                                 !.cursor.col = SaturatingSub(@, 1)])
      [] delegated = "Right" ->
            update_selection(update_cursor([st EXCEPT !.cursor.col = @ + 1]))
      [] OTHER -> st

\* CommitMessage pushes the message and leaves the cursor where it was
conversationCommitKeepCursor(st, original, display) ==
    [st EXCEPT !.selection = NoSelection,
               !.partial = <<>>,
               !.history = Append(@, [original |-> original,
                                      display |-> display])]

\* reduce for CommitMessage(msg); display is what the markdown of the
\* content is rendered to
conversationCommit(st, original, display) ==
    LET pushed == [st EXCEPT !.selection = NoSelection,
                             !.partial = <<>>,
                             !.history = Append(@, [original |-> original,
                                                    display |-> display])]
    IN  [pushed EXCEPT
            !.cursor = CursorPosition(SaturatingSub(total_lines(pushed), 2), 0)]

\* UpdatePartial puts the messages behind those of history
conversationUpdatePartialPush(st, msg) ==
    [st EXCEPT !.history = @ \o [i \in 1..Len(msg) |->
                                    [original |-> msg[i],
                                     display |-> PlainLines(msg[i])]]]

\* reduce for UpdatePartial(msg)
conversationUpdatePartial(st, msg) ==
    [st EXCEPT !.partial = [i \in 1..Len(msg) |->
                               [original |-> msg[i],
                                display |-> PlainLines(msg[i])]]]

\* reduce of the chat feature (src/src/app/chat.rs) for CommitMessage(msg)
chatCommit(st, original, display) ==
    [st EXCEPT !.partial = <<>>,
               !.history = Append(@, [original |-> original,
                                      display |-> display])]

\* reduce of the chat feature for UpdatePartial(msg)
chatUpdatePartial(st, msg) ==
    [st EXCEPT !.partial = [i \in 1..Len(msg) |->
                               [original |-> msg[i],
                                display |-> PlainLines(msg[i])]]]

SelectionKeys == {"v", "V", "y"}

\* reduce for Event(Key) with kind Press and code 'v' (shift tells whether
\* the modifiers hold SHIFT) or 'y' (clipboard tells whether
\* ClipboardProvider::new() gives a context; unwrap panics when it does not)
conversationKey(st, code, clipboard) ==
    CASE code \in {"v", "V"} ->
            [state |-> IF st.selection # NoSelection
                       THEN [st EXCEPT !.selection = NoSelection]
                       ELSE IF code = "V"
                       THEN [st EXCEPT !.selection =
                               [kind |-> "Line",
                                start |-> CursorPosition(st.cursor.row, 0),
                                range |-> [lo |-> CursorPosition(st.cursor.row, 0),
                                           hi |-> CursorPosition(st.cursor.row, 0)]]]
                       ELSE [st EXCEPT !.selection =
                               [kind |-> "Char",
                                start |-> st.cursor,
                                range |-> [lo |-> st.cursor, hi |-> st.cursor]]],
             panic |-> FALSE]
      [] code = "y" ->
            IF st.selection = NoSelection THEN [state |-> st, panic |-> FALSE]
            ELSE IF ~clipboard THEN [state |-> st, panic |-> TRUE]
            ELSE [state |-> [st EXCEPT !.selection = NoSelection],
                  panic |-> FALSE]
      [] OTHER -> [state |-> conversationMove(st, movesReduce(code)),
                   panic |-> FALSE]

\* the text of the user's message
UserMessage == << "x" >>

\* State::new with the history of a new or of a stored conversation; chat
\* is the State of the chat feature, whose history starts with one message,
\* and which is sent the same CommitMessage and UpdatePartial actions
InitConversation ==
    /\ InitView
    /\ \E stored \in BOOLEAN :
          view = [feature |-> "conversation",
                  state |-> [cursor |-> CursorPosition(0, 0),
                             selection |-> NoSelection,
                             history |-> IF stored
                                         THEN << [original |-> UserMessage,
                                                  display |-> << LineWidth >>] >>
                                         ELSE <<>>,
                             partial |-> <<>>],
                  chat |-> [history |-> << [original |-> <<>>,
                                            display |-> <<>>] >>,
                            partial |-> <<>>],
                  job |-> "idle", output |-> <<>>, chunks |-> 0,
                  panicked |-> FALSE]

\* the messages committed and those the job in progress will commit
Committed == Len(view.state.history) + Len(view.output)

\* the key code is pressed: 'v', 'V' and 'y' are reduced in place, every
\* other key goes through Move(Event) and comes back as Move(Delegated)
ConversationKeyPressed(code, clipboard) ==
    /\ ~view.panicked
    /\ code = "l" => view.state.cursor.col < MaxCol
    /\ LET res == conversationKey(view.state, code, clipboard)
       IN  view' = [view EXCEPT !.state = res.state, !.panicked = res.panic]
    /\ UNCHANGED << engineVars, routingVars >>

ConversationKeys == MoveKeys \cup SelectionKeys \cup {"x"}

\* a key press
ConversationKeyPress ==
    \E code \in ConversationKeys, clipboard \in BOOLEAN :
        /\ code # "y" => clipboard
        /\ ConversationKeyPressed(code, clipboard)

\* NewMessage(message) with a message that is not empty: the job sends
\* BeganStreaming and CommitMessage(user_message)
ConversationNewMessage ==
    /\ ~view.panicked
    /\ view.job = "idle"
    /\ Committed < MaxCommits
    /\ view' = [view EXCEPT !.job = "began", !.output = <<>>, !.chunks = 0]
    /\ UNCHANGED << engineVars, routingVars >>

\* CommitMessage(user_message)
ConversationCommitUser ==
    /\ ~view.panicked
    /\ view.job = "began"
    /\ \E display \in Displays :
          view' = [view EXCEPT
                      !.state = conversationCommit(@, UserMessage, display),
                      !.chat = chatCommit(@, UserMessage, display),
                      !.job = "streaming"]
    /\ UNCHANGED << engineVars, routingVars >>

\* the stream yields a chunk; the job pushes it and sends
\* UpdatePartial(from_response_chunks(output))
ConversationChunk ==
    /\ ~view.panicked
    /\ view.job = "streaming"
    /\ view.chunks < MaxChunks
    /\ \E chunk \in Chars \cup {"Begin"} :
          /\ view.output = <<>> => chunk = "Begin"
          /\ chunk = "Begin" => Committed < MaxCommits
          /\ LET output == from_response_chunks(view.output, chunk)
             IN  view' = [view EXCEPT
                             !.state = conversationUpdatePartial(@, output),
                             !.chat = chatUpdatePartial(@, output),
                             !.output = output,
                             !.chunks = @ + 1]
    /\ UNCHANGED << engineVars, routingVars >>

\* the stream ends or fails: the job goes on to send CommitMessage for each
\* message of from_response_chunks(output)
ConversationStreamEnd ==
    /\ ~view.panicked
    /\ view.job = "streaming"
    /\ view' = [view EXCEPT
                   !.job = IF view.output = <<>> THEN "idle" ELSE "committing",
                   !.chunks = 0]
    /\ UNCHANGED << engineVars, routingVars >>

\* CommitMessage(message) for the next message of the output
ConversationCommit ==
    /\ ~view.panicked
    /\ view.job = "committing"
    /\ \E display \in Displays :
          view' = [view EXCEPT
                      !.state = conversationCommit(@, Head(view.output), display),
                      !.chat = chatCommit(@, Head(view.output), display),
                      !.output = Tail(@),
                      !.job = IF Tail(view.output) = <<>>
                              THEN "idle" ELSE "committing"]
    /\ UNCHANGED << engineVars, routingVars >>

NextConversation ==
    \/ ConversationKeyPress
    \/ ConversationNewMessage
    \/ ConversationCommitUser
    \/ ConversationChunk
    \/ ConversationStreamEnd
    \/ ConversationCommit

SpecConversation == InitConversation /\ [][NextConversation]_vars

(***************************************************************************)
(* The single-line input (src/src/single_line_input.rs) over the text      *)
(* field (src/src/textfield.rs) and its Vim emulation (src/src/editor.rs). *)
(* The textarea is the sequence of the lengths of its lines and the        *)
(* cursor; a pasted text is the sequence of the lengths of its lines.      *)
(***************************************************************************)
\* TextArea::default(): one empty line
EmptyTextArea == [lines |-> << 0 >>, row |-> 0, col |-> 0]

\* the lines before and after line row (counted from 0)
LinesBefore(ta) == SubSeq(ta.lines, 1, ta.row)

LinesAfter(ta) == SubSeq(ta.lines, ta.row + 2, Len(ta.lines))

\* TextArea::insert_char
insert_char(ta) ==
    [ta EXCEPT !.lines[ta.row + 1] = @ + 1, !.col = @ + 1]

\* TextArea::insert_newline: the line is split at the cursor
insert_newline(ta) ==
    [lines |-> LinesBefore(ta)
                  \o << ta.col, ta.lines[ta.row + 1] - ta.col >>
                  \o LinesAfter(ta),
     row |-> ta.row + 1, col |-> 0]

\* TextArea::insert_str: the first line of the text joins what is before
\* the cursor, its last line what is behind
insert_str(ta, text) ==
    IF Len(text) = 1
    THEN [ta EXCEPT !.lines[ta.row + 1] = @ + text[1], !.col = @ + text[1]]
    ELSE [lines |-> LinesBefore(ta)
                       \o << ta.col + text[1] >>
                       \o SubSeq(text, 2, Len(text) - 1)
                       \o << text[Len(text)] + ta.lines[ta.row + 1] - ta.col >>
                       \o LinesAfter(ta),
          row |-> ta.row + Len(text) - 1,
          col |-> text[Len(text)]]

\* move_cursor(CursorMove::End), (CursorMove::Head), (CursorMove::Up)
MoveEnd(ta) == [ta EXCEPT !.col = ta.lines[ta.row + 1]]

MoveHead(ta) == [ta EXCEPT !.col = 0]

MoveUp(ta) ==
    IF ta.row = 0 THEN ta
    ELSE [ta EXCEPT !.row = @ - 1, !.col = Min(@, ta.lines[ta.row])]

InputKeys == {"z", "Enter", "Esc", "i", "o", "O"}

\* Vim::transition for a key: what it does to the textarea and the
\* Transition it returns
VimTransition(mode, key, ta) ==
    IF mode = "Insert"
    THEN IF key = "Esc" THEN [textarea |-> ta, transition |-> "Normal"]
         ELSE [textarea |-> IF key = "Enter" THEN insert_newline(ta)
                            ELSE insert_char(ta),
               transition |-> "Insert"]
    ELSE CASE key = "i" -> [textarea |-> ta, transition |-> "Insert"]
           [] key = "o" -> [textarea |-> insert_newline(MoveEnd(ta)),
                            transition |-> "Insert"]
           [] key = "O" -> [textarea |-> MoveUp(insert_newline(MoveHead(ta))),
                            transition |-> "Insert"]
           [] OTHER -> [textarea |-> ta, transition |-> "Nop"]

\* textfield::Feature::reduce for Event(event); event is <<"Key", code>> or
\* <<"Paste", text>>
textfieldEvent(st, event) ==
    IF event[1] = "Paste"
    THEN [state |-> IF st.mode = "Insert"
                    THEN [st EXCEPT !.textarea = insert_str(@, event[2])]
                    ELSE st,
          effect |-> EffectNone]
    ELSE LET res == VimTransition(st.mode, event[2], st.textarea)
         IN  CASE res.transition \in {"Normal", "Insert"}
                    /\ res.transition # st.mode ->
                    [state |-> [mode |-> res.transition,
                                textarea |-> res.textarea],
                     effect |-> EffectNone]
               [] res.transition = "Nop" ->
                    [state |-> [st EXCEPT !.textarea = res.textarea],
                     effect |-> EffectSend(IF event[2] = "Enter"
                                           THEN <<"Delegated", "Commit">>
                                           ELSE <<"Delegated", "Noop">>)]
               [] res.transition = "Insert" ->
                    [state |-> [st EXCEPT !.textarea = res.textarea],
                     effect |-> EffectSend(<<"Delegated", "Updated">>)]
               [] OTHER ->
                    [state |-> [st EXCEPT !.textarea = res.textarea],
                     effect |-> EffectNone]

\* single_line_input reduce for TextField(Delegated(Updated)): with more
\* than one line the cursor jumps to the end of the first line and what
\* follows is deleted
singleLineUpdated(st) ==
    IF Len(st.textarea.lines) > 1
    THEN [st EXCEPT !.textarea = [lines |-> << st.textarea.lines[1] >>,
                                  row |-> 0,
                                  col |-> st.textarea.lines[1]]]
    ELSE st

\* the texts pasted: one line, two lines
Pastes == { << 1 >>, << 1, 1 >> }

\* single_line_input::State::new
InitSingleLine ==
    /\ InitView
    /\ view = [feature |-> "single_line_input",
               state |-> [mode |-> "Normal", textarea |-> EmptyTextArea],
               pending |-> EffectNone, keys |-> 0,
               last |-> <<>>]

\* Event(e) is sent on as TextField(Event(e)), which the text field reduces
SingleLineEvent ==
    /\ view.pending = EffectNone
    /\ view.keys < MaxKeys
    /\ \E event \in ({"Key"} \X InputKeys) \cup ({"Paste"} \X Pastes) :
          LET res == textfieldEvent(view.state, event)
          IN  view' = [view EXCEPT !.state = res.state,
                                   !.pending = res.effect,
                                   !.keys = @ + 1,
                                   !.last = << event[1], view.state.mode >>]
    /\ UNCHANGED << engineVars, routingVars >>

\* TextField(Delegated(delegated)): Updated cuts the textarea down to its
\* first line, the others are delegated on
SingleLineDelegated ==
    /\ view.pending # EffectNone
    /\ view' = [view EXCEPT
                   !.state = IF view.pending.action[2] = "Updated"
                             THEN singleLineUpdated(@) ELSE @,
                   !.pending = EffectNone]
    /\ UNCHANGED << engineVars, routingVars >>

NextSingleLine ==
    \/ SingleLineEvent
    \/ SingleLineDelegated

SpecSingleLine == InitSingleLine /\ [][NextSingleLine]_vars

(***************************************************************************)
(* The synchronous application (src/src/main.rs) on the synchronous Store  *)
(* (src/src/tca.rs).  The State is current_screen and the mode of the text *)
(* field's editor; the text itself plays no part in what follows.  main    *)
(* draws, reads one event, sends it and leaves the loop when store.quit is *)
(* set.                                                                    *)
(***************************************************************************)
LegacyKeyCodes == {"y", "q", "n", "i", "Esc", "z"}

\* what event::read() returns: a key event or another event
LegacyEvents ==
    { Key(code, kind, FALSE) : code \in LegacyKeyCodes, kind \in KeyEventKinds }
    \cup { [type |-> "Mouse", code |-> "", kind |-> "", ctrl |-> FALSE,
            size |-> 0] }

\* the reducer of the text field for Event(e): 'q' in Normal mode is
\* Transition::Quit and is delegated, 'i' and Esc change the mode, every
\* other key edits the text or moves the cursor
TextFieldReducer(mode, e) ==
    CASE mode = "Normal" /\ e.code = "q" ->
            [state |-> mode, effect |-> EffectSend(<<"Delegated", "Quit">>)]
      [] mode = "Normal" /\ e.code = "i" ->
            [state |-> "Insert", effect |-> EffectNone]
      [] mode = "Insert" /\ e.code = "Esc" ->
            [state |-> "Normal", effect |-> EffectNone]
      [] OTHER -> [state |-> mode, effect |-> EffectNone]

\* AppFeature::reduce answers 'y' and 'q' with Effect::quit() on the Main
\* screen as well
AppFeatureQuitAnywhere(st, action) ==
    IF /\ action[1] = "Event"
       /\ action[2].type = "Key"
       /\ action[2].kind # "Release"
       /\ action[2].code \in {"y", "q"}
    THEN [state |-> st, effect |-> EffectQuit]
    ELSE [state |-> st, effect |-> EffectNone]

\* AppFeature::reduce
AppFeature(st, action) ==
    CASE action[1] = "TextField" /\ action[2] = "Delegated" ->
            [state |-> [st EXCEPT !.current_screen = "Exiting"],
             effect |-> EffectNone]
      [] action[1] = "TextField" ->
            LET res == TextFieldReducer(st.textarea, action[3])
            IN  [state |-> [st EXCEPT !.textarea = res.state],
                 effect |-> EffectMap(res.effect, "TextField")]
      [] action[2].type = "Key" /\ action[2].kind # "Release" ->
            IF st.current_screen = "Main"
            THEN [state |-> st,
                  effect |-> EffectSend(<<"TextField", "Event", action[2]>>)]
            ELSE IF action[2].code \in {"y", "q"}
            THEN [state |-> st, effect |-> EffectQuit]
            ELSE IF action[2].code = "n"
            THEN [state |-> [st EXCEPT !.current_screen = "Main"],
                  effect |-> EffectNone]
            ELSE [state |-> st, effect |-> EffectNone]
      [] OTHER -> [state |-> st, effect |-> EffectNone]

\* Store::handle: a Send is reduced and the effect of that handled in turn,
\* Quit sets the flag; reduced lists the actions handed to the reducer
RECURSIVE StoreHandle(_, _)
StoreHandle(store, eff) ==
    CASE eff.kind = "Send" ->
            LET res == AppFeature(store.state, eff.action)
            IN  StoreHandle([store EXCEPT
                                !.state = res.state,
                                !.reduced = Append(@, eff.action)],
                            res.effect)
      [] eff.kind = "Quit" -> [store EXCEPT !.quit = TRUE]
      [] OTHER -> store

\* State::default() in Store::new; main is about to read an event
InitLegacy ==
    /\ InitView
    /\ view = [feature |-> "legacy",
               store |-> [state |-> [current_screen |-> "Main",
                                     textarea |-> "Normal"],
                          quit |-> FALSE, reduced |-> <<>>],
               screen |-> "Main",
               pc |-> "read", events |-> 0]

\* event::read() and store.send(AppAction::Event(event)); screen is the
\* current_screen the event was sent on
LegacySend ==
    /\ view.pc = "read"
    /\ view.events < MaxEvents
    /\ \E event \in LegacyEvents :
          view' = [view EXCEPT
                      !.store = StoreHandle([@ EXCEPT !.reduced = <<>>],
                                            EffectSend(<<"Event", event>>)),
                      !.screen = view.store.state.current_screen,
                      !.pc = "check",
                      !.events = @ + 1]
    /\ UNCHANGED << engineVars, routingVars >>

\* if store.quit { break }, else the next terminal.draw
LegacyCheckQuit ==
    /\ view.pc = "check"
    /\ view' = [view EXCEPT !.pc = IF view.store.quit THEN "done" ELSE "read"]
    /\ UNCHANGED << engineVars, routingVars >>

NextLegacy ==
    \/ LegacySend
    \/ LegacyCheckQuit

SpecLegacy == InitLegacy /\ [][NextLegacy]_vars

(***************************************************************************)
(* Observations the properties below are stated with                       *)
(***************************************************************************)
\* the tasks inside a reducer invocation
Reducing == { r \in Runners : pc[r] = "reduce" }

\* the tasks whose handle has reached the effect that ends a Send chain
ChainEnded(r) == pc[r] = "handle" /\ effect[r].kind # "Send" /\ burst.active

\* the Action events of the channel that were sent through the scoped handle
ScopedPending == { i \in 1..Len(queue) : queue[i].via # <<>> }

\* the scoped Action events received whose reducer invocation has not
\* happened yet
ScopedInHand == { r \in Runners : pc[r] \in {"handle", "reduce"}
                                   /\ ctx[r].head /\ ctx[r].via # <<>> }

\* a step in which the redraw callback runs for a received RedrawUI
RedrawCalled ==
    /\ queue # <<>>
    /\ Head(queue).type = "RedrawUI"
    /\ Len(queue') < Len(queue)

\* a step in which a reducer invocation happens
ReducerCalled == \E r \in Runners : pc[r] = "reduce" /\ pc'[r] # "reduce"

(***************************************************************************)
(* Properties                                                              *)
(***************************************************************************)
\* C1: at most one reducer invocation is in progress at any instant; a second
\* task that runs the same engine does not mutate State while the first one
\* is inside the reducer.
C1_SingleWriter == Cardinality(Reducing) <= 1

\* C1, its case: task 1 is inside the reducer while task 2 has called run
\* and waits.
C1_Witness == pc[1] = "reduce" /\ 2 \in callers /\ pc[2] = "idle"

\* C2 as stated: when the chain of a Dispatch has ended, a Redraw was
\* scheduled if and only if State differs from State before the Dispatch.
C2_RedrawPerDispatch ==
    \A r \in Runners :
        ChainEnded(r) => ((burst.redraws > 0) <=> (state # burst.before))

\* C2: every step enqueues exactly one more RedrawUI if and only if it is a
\* reducer invocation that left State different from what it was before
\* that invocation.
C2_RedrawPerInvocation ==
    [][(NumRedraw(queue') = NumRedraw(queue) + 1) <=> (state' # state)]_vars

\* C2, its case: a Dispatch whose chain made two reducer invocations, each
\* changing State, and ended with State as it was before the Dispatch.
C2_Witness ==
    \E r \in Runners :
        /\ ChainEnded(r)
        /\ burst.reduces = 2
        /\ burst.redraws = 2
        /\ state = burst.before
        /\ NumRedraw(queue) >= 2

\* C3: the step of handle that interprets an Async effect returns control to
\* the run loop, which can then receive further events.
C3_AsyncDoesNotBlock ==
    [][\A r \in Runners :
          (pc[r] = "handle" /\ effect[r].kind = "Async" /\ pc'[r] # "handle")
              => pc'[r] = "select"]_vars

\* C4: a Dispatch whose reducers return a chain of N Send effects makes
\* exactly N + 1 reducer invocations, and no Dispatch, Redraw, Quit or input
\* event is processed between two of them.
C4_SendChainAtomic ==
    /\ ~interleaved
    /\ \A r \in Runners :
          /\ ChainEnded(r) => burst.reduces = burst.sends + 1
          /\ pc[r] = "job" => burst.reduces = burst.sends + 1
          /\ (pc[r] = "reduce" \/ (pc[r] = "handle" /\ effect[r].kind = "Send"))
                => burst.reduces = burst.sends
          /\ pc[r] \in {"handle", "reduce", "job"} => burst.active

\* C4, its case: a chain of two Send effects has ended after three reducer
\* invocations.
C4_Witness ==
    \E r \in Runners :
        ChainEnded(r) /\ burst.sends = 2 /\ burst.reduces = 3

\* C5 as stated: once a Quit effect has been interpreted, no reducer
\* invocation and no redraw callback happens for any event of the queue.
C5_NothingAfterQuitEffect ==
    [][quitEffect => ~(RedrawCalled \/ ReducerCalled)]_vars

\* C5: the step that receives the Quit event ends run, and from then on no
\* event is taken from the queue, no reducer is invoked and no redraw
\* callback runs.
C5_NothingAfterQuitEvent ==
    [][/\ quitDequeued' => pc'[1] = "done"
       /\ quitDequeued => /\ Len(queue') >= Len(queue)
                          /\ state' = state
                          /\ ~(RedrawCalled \/ ReducerCalled)]_vars

\* C5, its case: run has returned on the Quit event and events are left in
\* the queue.
C5_Witness == quitDequeued /\ pc[1] = "done" /\ queue # <<>>

\* C6: once the terminal stream has yielded an error or has ended, run has
\* terminated.
C6_InputFailureEndsRun == inputFailed => pc[1] = "done"

\* C7: every Action event run receives is the oldest one still in the
\* queue, and it is received only when the chain of the one before it has
\* ended.
C7_DispatchFifo == lastRank <= 1 /\ ~interleaved

\* C7, its case: a Dispatch has been received and is being handled while a
\* later one waits in the queue.
C7_Witness ==
    /\ lastRank = 1
    /\ pc[1] \in {"handle", "reduce"}
    /\ Pending(queue) # {}

\* C8: an event placed in the queue does not wait forever: the queue is
\* emptied again unless run has returned on a Quit event.
C8_NoStarvation == (queue # <<>>) ~> (queue = <<>> \/ quitDequeued)

\* C9 as stated: once run has returned, no action sent through the scoped
\* handle is still waiting for its reducer invocation.
C9_ScopedSendReduced == pc[1] = "done" => ScopedPending = {}

\* C9: a send of a child action through the scoped handle puts exactly one
\* Action event on the engine's queue, holding f(child) from the moment of
\* the send; the parent reducer is invoked with f(child) at most once for
\* it, exactly once when run has received that event.
C9_ScopedSendOnce ==
    /\ \A i \in ScopedPending :
          /\ queue[i].type = "Action"
          /\ queue[i].action = << "Child" >> \o queue[i].via
    /\ \A p \in scoped.pairs : p[2] = << "Child" >> \o p[1]
    /\ scoped.sent = scoped.invoked + Cardinality(ScopedPending)
                        + Cardinality(ScopedInHand)

\* C9, its case: the parent reducer has been invoked for an action sent
\* through the scoped handle while another such action waits in the queue.
C9_Witness == scoped.invoked >= 1 /\ ScopedPending # {}

\* C10: map turns None into None, Quit into Quit, Send(a) into Send(f(a)),
\* and an Async job into an Async job running the same work whose every
\* send of an action a arrives as f(a).
C10_EffectMapTranslates ==
    /\ lastMap.mapped.kind = lastMap.child.kind
    /\ lastMap.child.kind = "Send"
          => lastMap.mapped.action = << "Child" >> \o lastMap.child.action
    /\ lastMap.child.kind = "Async" => lastMap.mapped.job = lastMap.child.job
    /\ Len(jobGot) = Len(jobSent)
    /\ ~lastMap.deep =>
          \A i \in 1..Len(jobSent) : jobGot[i] = << "Child" >> \o jobSent[i]

\* C10, its case: the job of a mapped Async effect has made both its sends.
C10_Witness == lastMap.child.kind = "Async" /\ Len(jobGot) = 2

\* the run loop has nothing left to do: the queue is empty and the task
\* waits in select!
Quiet == queue = <<>> /\ pc[1] = "select"

\* a step in which a send is made from outside the run loop
SendCalled == sent' = sent + 1

\* C11: an action c sent through the handle scoped with Grand and then with
\* Child arrives on the engine's queue as Child(Grand(c)), and an effect of
\* the grandchild mapped with Grand and then with Child keeps its kind,
\* carries Child(Grand(a)) for a Send of a, and delivers every send a of its
\* job as Child(Grand(a)).
C11_TransitiveScope ==
    /\ \A i \in ScopedPending :
          queue[i].via[1] = "Grand"
              => queue[i].action = << "Child", "Grand" >> \o Tail(queue[i].via)
    /\ \A p \in scoped.pairs :
          p[1][1] = "Grand" => p[2] = << "Child", "Grand" >> \o Tail(p[1])
    /\ lastMap.deep =>
          /\ lastMap.mapped.kind = lastMap.inner.kind
          /\ lastMap.inner.kind = "Send"
                => lastMap.mapped.action
                      = << "Child", "Grand" >> \o lastMap.inner.action
          /\ lastMap.inner.kind = "Async"
                => /\ lastMap.mapped.job = lastMap.inner.job
                   /\ Len(jobGot) = Len(jobSent)
                   /\ \A i \in 1..Len(jobSent) :
                         jobGot[i] = << "Child", "Grand" >> \o jobSent[i]

\* C11, its case: an action sent through the twice scoped handle has been
\* reduced, and the job of the grandchild's Async effect has made both its
\* sends.
C11_Witness ==
    /\ \E p \in scoped.pairs : p[1][1] = "Grand"
    /\ lastMap.deep
    /\ lastMap.inner.kind = "Async"
    /\ Len(jobGot) = 2

C13_NoneDoesNothing ==
    [][\A r \in Runners :
          (pc[r] = "handle" /\ effect[r].kind = "None" /\ pc'[r] # "handle")
              => /\ queue' = queue
                 /\ state' = state
                 /\ pc'[r] = "select"
                 /\ ~ReducerCalled]_vars

\* C13, its case: a Dispatch has ended in Effect::None and the queue is
\* empty.
C13_Witness ==
    pc[1] = "select" /\ effect[1].kind = "None" /\ lastRank = 1 /\ queue = <<>>

\* C14: the actions one job sent are received in the order the job sent
\* them, and the reducer invocation for each of them enqueues one RedrawUI
\* exactly when it changed State.
C14_JobSendsInOrder ==
    [][/\ ~obs'.disorder
       /\ \A r \in Runners :
             (pc[r] = "reduce" /\ ctx[r].head /\ ctx[r].seq > 0
                 /\ pc'[r] # "reduce")
                 => NumRedraw(queue') - NumRedraw(queue)
                       = IF state' # state THEN 1 ELSE 0]_vars

\* C14, its case: the second action a job sent has been reduced.
C14_Witness ==
    \E r \in Runners : pc[r] = "handle" /\ ctx[r].seq = 2 /\ ~ctx[r].head

\* C15: a step that calls send appends one Action event to the queue,
\* invokes no reducer and leaves State and every task of the loop where it
\* was.
C15_SendOnlyEnqueues ==
    [][SendCalled
          => /\ state' = state
             /\ pc' = pc
             /\ Len(queue') = Len(queue) + 1
             /\ queue'[Len(queue')].type = "Action"
             /\ ~ReducerCalled]_vars

\* C15, its case: an action was sent before run was called and waits in the
\* queue with State as constructed.
C15_Witness ==
    sent >= 1 /\ pc[1] = "idle" /\ Pending(queue) # {} /\ state.child = 0

\* C16: once a send has been made after run returned on the Quit event, no
\* step invokes the reducer, changes State or takes an event from the queue.
C16_SendAfterQuitIgnored ==
    [][obs.lateSend
          => /\ state' = state
             /\ ~ReducerCalled
             /\ Len(queue') >= Len(queue)]_vars

\* C16, its case: run has returned, an action was sent afterwards and is in
\* the queue.
C16_Witness == obs.lateSend /\ pc[1] = "done" /\ Pending(queue) # {}

\* C19: every step that changes State is a reducer invocation.
C19_StateOnlyInReducer == [][state' # state => ReducerCalled]_vars

\* C19, its case: run has redrawn, an input event has been mapped, sends have
\* been made and a job has made its sends, and State is still as constructed.
C19_Witness ==
    /\ pc[1] = "job"
    /\ Len(jobSent) = 2
    /\ terminal.left < MaxInputs
    /\ sent >= 1
    /\ state.child = 0

\* C20: a job that has been started is left only when its future has
\* completed, and every send it makes appends the action it delivered to the
\* queue.
C20_NoCancellation ==
    [][\A r \in Runners :
          pc[r] = "job"
              => /\ pc'[r] = "job" \/ (pc'[r] = "select" /\ job[r].script = <<>>)
                 /\ Len(jobGot') > Len(jobGot)
                       => /\ Len(queue') = Len(queue) + 1
                          /\ queue'[Len(queue')].action = jobGot'[Len(jobGot')]]_vars

\* C20, its case: a job has run to the end of its script and both actions it
\* sent are in the queue.
C20_Witness ==
    /\ pc[1] = "job"
    /\ job[1].script = <<>>
    /\ Len(jobGot) = 2
    /\ Cardinality(Pending(queue)) >= 2

\* C17: a call of AuthReducer with a ChatGPTConfig action that is not
\* Delegated while configuration is None panics, and so does a call of the
\* chat_loader reducer with a Chat action that is not Delegated while its
\* State is None; neither changes the state.
C17_AbsentChildPanics ==
    /\ (called.feature = "auth" /\ called.action[1] = "ChatGPTConfig"
           /\ called.action[2] # "Delegated" /\ called.before = "None")
          => panicked = "auth" /\ auth.configuration = "None"
    /\ (called.feature = "chat_loader" /\ called.action[1] = "Chat"
           /\ called.action[2] # "Delegated" /\ called.before = "None")
          => panicked = "chat_loader" /\ chat_loader = "None"

\* C17, its case: AuthReducer was called with ChatGPTConfig(Event) while it
\* had no configuration.
C17_Witness ==
    /\ called.feature = "auth"
    /\ called.action = <<"ChatGPTConfig", "Event">>
    /\ called.before = "None"
    /\ panicked = "auth"

\* C18: when the external call of a chat-completion job has failed, the job
\* has not panicked, it has returned, and the last two actions it sent are
\* ScheduleTooltip with an Error tooltip and StoppedStreaming.
C18_JobFailureBecomesAction ==
    stream.failure # ""
        => /\ panicked # stream.feature
           /\ stream.at = "done"
           /\ Len(stream.out) >= 2
           /\ SubSeq(stream.out, Len(stream.out) - 1, Len(stream.out))
                 = ErrorSends

\* the events of a channel as the run loop sees them, without history fields
Events(q) == [i \in 1..Len(q) |-> [type |-> q[i].type, action |-> q[i].action]]

\* C21: interpreting a Quit effect appends the Quit event behind every event
\* already in the queue and returns to the loop; events leave the queue at
\* its head only and enter it at its tail only, and run returns only in the
\* step that receives a Quit event, so everything enqueued before that event
\* was received before; once run has returned nothing is received, reduced or
\* redrawn.
C21_QuitEventTerminal ==
    [][/\ \A r \in Runners :
             (pc[r] = "handle" /\ effect[r].kind = "Quit" /\ pc'[r] # "handle")
                 => /\ Events(queue')
                          = Append(Events(queue), [type |-> "Quit",
                                                   action |-> <<>>])
                    /\ pc'[r] = "select"
       /\ \A r \in Runners :
             (pc[r] # "done" /\ pc'[r] = "done")
                 => /\ queue # <<>>
                    /\ Head(queue).type = "Quit"
                    /\ Events(queue') = Tail(Events(queue))
       /\ Len(queue') < Len(queue) => Events(queue') = Tail(Events(queue))
       /\ Len(queue') >= Len(queue)
             => SubSeq(Events(queue'), 1, Len(queue)) = Events(queue)
       /\ pc[1] = "done"
             => /\ Len(queue') >= Len(queue)
                /\ state' = state
                /\ ~(RedrawCalled \/ ReducerCalled)]_vars

\* C21, its case: run has returned on the Quit event and a RedrawUI is left
\* in the queue.  That RedrawUI was enqueued behind the Quit event by the
\* reducer invocation of a Dispatch that was ahead of the Quit event, so an
\* event enqueued before it was processed first and one enqueued after it is
\* left unprocessed.
C21_Witness ==
    /\ pc[1] = "done"
    /\ quitDequeued
    /\ \E i \in 1..Len(queue) : queue[i].type = "RedrawUI"

\* C22: the RedrawUI events the reducer invocations of one Dispatch have
\* enqueued are as many as those of its invocations that changed State,
\* whatever State was before the Dispatch.
C22_RedrawPerChainInvocation ==
    \A r \in Runners :
        pc[r] \in {"handle", "reduce", "job"}
            => burst.queued = burst.redraws

\* C22, its case: a chain of two reducer invocations, each changing State,
\* has ended with State as it was before the Dispatch and has enqueued two
\* RedrawUI events.
C22_Witness ==
    \E r \in Runners :
        /\ ChainEnded(r)
        /\ burst.reduces = 2
        /\ burst.redraws = burst.reduces
        /\ burst.queued = 2
        /\ state = burst.before

\* a step in which run makes its first call of the redraw callback
FirstRedrawCalled == \E r \in Runners : pc[r] = "init" /\ pc'[r] = "select"

\* C23: a step in which the redraw callback runs finds no Dispatch in
\* progress: no task is inside handle, a reducer or a job; and State changes
\* only while a Dispatch is in progress, so the State the callback is handed
\* is the one the last completed chain left.
C23_RedrawAfterChain ==
    [][/\ (RedrawCalled \/ FirstRedrawCalled)
             => /\ ~burst.active
                /\ \A r \in Runners : pc[r] \notin {"handle", "reduce", "job"}
       /\ state' # state => burst.active /\ burst'.active]_vars

\* C23, its case: the only action sent was Child(Up), whose chain of two
\* reducer invocations changed State twice and enqueued two RedrawUI events;
\* the chain has ended, the callback has run for the first of the two and
\* the second is still in the queue.
C23_Witness ==
    /\ pc[1] = "select"
    /\ ~burst.active
    /\ sent = 1
    /\ terminal.left = MaxInputs
    /\ state.child = 0
    /\ NumRedraw(queue) = 1

\* C24: when the SetTooltip(None) a tooltip job sent is reduced, the redraw
\* callback has been invoked with State.tooltip = Some(t) since the job's
\* SetTooltip(Some(t)) was reduced.
C24_TooltipShown ==
    [][\A r \in Runners :
          (/\ pc[r] = "reduce"
           /\ effect[r].action = <<"Conversation", "SetTooltip", "None">>
           /\ pc'[r] # "reduce")
              => obs.shown]_vars


\* C25: in the chain of a dispatched action handle never comes back to a
\* reducer invocation it has already made (same action on the same State), so
\* the chain is finite: it takes at most ten invocations of the entry
\* reducer and then its effect is None, Quit or Async.
C25_FiniteSendChain ==
    /\ entry.effect.kind = "Send" => PendingInvocation \notin Invoked
    /\ Len(entry.path) <= 10
    /\ Len(entry.path) = 10 => entry.effect.kind \in {"None", "Quit", "Async"}

\* C25, its case: the chain of a '!' key pressed on the Config screen while
\* the ChatGPT configuration is open has gone through auth, the configuration
\* and its input, navigation and chat_loader and has ended in the Async
\* effect of the conversation list's Reload.
C25_Witness ==
    /\ entry.event = Key("!", "Press", FALSE)
    /\ Len(entry.path) = 10
    /\ entry.path[1].action = <<"Event">>
    /\ entry.path[2].action = <<"Config", "Event">>
    /\ entry.path[3].action = <<"Config", "ChatGPTConfig", "Event">>
    /\ entry.path[9].action = <<"Chat", "ReloadConfig">>
    /\ entry.effect.kind = "Async"
\* C26: right after entry has reduced navigation's answer to a routed
\* Delegated Noop(e): for a 'q' or Ctrl+C key that is not a Release the effect
\* is Quit; for '!' current_screen is Chat and the effect sends ReloadConfig
\* to chat_loader; for '@' current_screen is Config and the effect is None;
\* for any other event State is as it was when the Noop arrived and the
\* effect is None.
C26_NavigationRouting ==
    \A i \in 1..Len(entry.path) :
        (/\ entry.path[i].action \in { <<"Chat", "Delegated", "Noop">>,
                                       <<"Config", "Delegated", "Noop">> }
         /\ Len(entry.path) = i + 1)
            => LET e == entry.event
                   pressed == e.type = "Key" /\ e.kind # "Release"
                   exit == pressed /\ (e.code = "q" \/ (e.code = "c" /\ e.ctrl))
               IN  CASE exit -> entry.effect = EffectQuit
                     [] pressed /\ e.code = "!" ->
                           /\ EntryState.navigation.current_screen = "Chat"
                           /\ entry.effect = EffectSend(<<"Chat", "ReloadConfig">>)
                     [] pressed /\ e.code = "@" ->
                           /\ EntryState.navigation.current_screen = "Config"
                           /\ entry.effect = EffectNone
                     [] OTHER ->
                           /\ EntryState = entry.path[i].state
                           /\ entry.effect = EffectNone

\* C26, its case: a '!' key pressed on the Config screen came back from auth
\* as Delegated Noop, was routed to navigation, and entry has reduced the
\* ChangeScreen(Chat) answer.
C26_Witness ==
    /\ entry.event = Key("!", "Press", FALSE)
    /\ Len(entry.path) = 6
    /\ entry.path[5].action = <<"Config", "Delegated", "Noop">>
    /\ entry.path[5].state.navigation.current_screen = "Config"
    /\ entry.path[6].action = <<"Navigation", "Delegated", "ChangeScreen", "Chat">>
    /\ EntryState.navigation.current_screen = "Chat"
    /\ entry.effect = EffectSend(<<"Chat", "ReloadConfig">>)

\* C30: from the default State, whatever terminal events are dispatched and
\* whatever their chains and jobs send, no reducer has panicked; no reducer
\* invocation takes chat_loader from Chat to None; an action Chat(Chat(..))
\* that is not Delegated is waiting to be reduced only while chat_loader is
\* Chat, and an action Config(ChatGPTConfig(..)) that is not Delegated only
\* while auth's configuration is ChatGPT.
C30_NoPanicBranchReached ==
    /\ panicked = ""
    /\ \A i \in 1..Len(entry.path) :
          entry.path[i].state.chat = "Chat" => StateAfter(i).chat = "Chat"
    /\ \A action \in Produced :
          /\ (Len(action) >= 3 /\ action[1] = "Chat" /\ action[2] = "Chat"
                 /\ action[3] # "Delegated") => chat_loader = "Chat"
          /\ (Len(action) >= 3 /\ action[1] = "Config"
                 /\ action[2] = "ChatGPTConfig" /\ action[3] # "Delegated")
                => auth.configuration = "ChatGPT"

\* C30, its case: the UpdateList action sent by the job of a Reload has been
\* dispatched behind a second terminal event, and chat_loader, still Chat,
\* has handed it to the chat reducer.
C30_Witness ==
    /\ entry.dispatched >= 2
    /\ Len(entry.path) = 1
    /\ entry.path[1].action
          = <<"Chat", "Chat", "Sidebar", "ConversationList", "UpdateList">>
    /\ entry.path[1].state.chat = "Chat"
    /\ chat_loader = "Chat"
    /\ entry.effect = EffectNone
    /\ panicked = ""

\* C27: a task that calls run goes from the call to the first redraw and
\* from there to the loop; the first redraw is handed the State the engine
\* was constructed with, and up to then nothing has left the queue, nothing
\* has been read from the terminal and State has not changed, whatever has
\* been sent; once in the loop the task never calls the first redraw again.
C27_InitialRedrawFirst ==
    [][/\ \A r \in callers :
             /\ (pc[r] = "idle" /\ pc'[r] # "idle") => pc'[r] = "init"
             /\ (pc[r] = "init" /\ pc'[r] # "init")
                   => /\ pc'[r] = "select"
                      /\ state = InitState
                      /\ lastRank = 0
                      /\ ~quitDequeued
             /\ pc[r] \notin {"idle", "init"} => pc'[r] # "init"
       /\ (\A r \in callers : pc[r] \in {"idle", "init"})
             => /\ state' = state
                /\ terminal' = terminal
                /\ Len(queue') >= Len(queue)
                /\ SubSeq(Events(queue'), 1, Len(queue)) = Events(queue)]_vars

\* C27, its case: run has made its first redraw and is in its loop; an action
\* sent to the store is still in the queue, nothing has been received or read
\* and State is as constructed.
C27_Witness ==
    /\ pc[1] = "select"
    /\ sent >= 1
    /\ queue # <<>>
    /\ Head(queue).type = "Action"
    /\ lastRank = 0
    /\ terminal.left = MaxInputs
    /\ state = InitState
    /\ obs.redraws = 1

\* the BeganStreaming and StoppedStreaming actions of the chat feature that
\* wait in a channel, in order
IsStreamMark(event) ==
    /\ event.type = "Action"
    /\ event.action \in { <<"Chat", "BeganStreaming">>,
                          <<"Chat", "StoppedStreaming">> }

StreamMarks(q) == SelectSeq(Events(q), IsStreamMark)

\* the one of them handle has received and not yet reduced
StreamMarkInHand(e) ==
    IF e.kind = "Send" /\ IsStreamMark([type |-> "Action", action |-> e.action])
    THEN << [type |-> "Action", action |-> e.action] >>
    ELSE <<>>

\* C28: the chat reducer handed a Commit while is_streaming is set leaves
\* State as it is and returns no effect, so no job starts; and of the
\* BeganStreaming and StoppedStreaming actions not yet reduced (the one
\* handle holds, then those in the queue) no two neighbours are equal, and
\* the first is StoppedStreaming while is_streaming is set: a job's
\* BeganStreaming is never followed by another job's before its own
\* StoppedStreaming.
C28_OneStreamingJob ==
    [][/\ \A r \in Runners :
             (/\ pc[r] = "reduce"
              /\ effect[r].action = <<"Chat", "TextField", "Delegated", "Commit">>
              /\ state.chat.is_streaming
              /\ pc'[r] # "reduce")
                 => /\ state' = state
                    /\ effect'[r] = EffectNone
                    /\ job' = job
                    /\ pc'[r] = "handle"
       /\ LET marks == StreamMarkInHand(effect'[1]) \o StreamMarks(queue')
          IN  /\ \A i \in 1..(Len(marks) - 1) :
                    marks[i].action # marks[i + 1].action
              /\ (state'.chat.is_streaming /\ marks # <<>>)
                    => marks[1].action = <<"Chat", "StoppedStreaming">>]_vars

\* C28, its case: a Commit sent while a job was running was reduced after the
\* job's BeganStreaming, with text in the textarea; the reducer has returned,
\* State is as the Dispatch found it and the job's StoppedStreaming is still
\* in the queue.
C28_Witness ==
    /\ obs.refused
    /\ pc[1] = "handle"
    /\ effect[1] = EffectNone
    /\ burst.reduces = 1
    /\ state = burst.before
    /\ state.chat.is_streaming
    /\ state.chat.textarea # ""
    /\ StreamMarks(queue) # <<>>

\* the place of the i-th action of a NewMessage job in its protocol
Phase(action, i) ==
    CASE action = <<"BeganStreaming">> -> 1
      [] action = <<"CommitMessage">> /\ i = 2 -> 2
      [] action = <<"UpdatePartial">> -> 3
      [] action = <<"CommitMessage">> /\ i # 2 -> 4
      [] action = <<"ScheduleTooltip", "Error">> -> 5
      [] action = <<"StoppedStreaming">> -> 6
      [] OTHER -> 0

\* C29: what a NewMessage job of conversation has sent so far starts with
\* BeganStreaming and CommitMessage, goes on with UpdatePartial actions, then
\* CommitMessage actions, then on an error ScheduleTooltip, then
\* StoppedStreaming, in this order; BeganStreaming is sent first only and
\* StoppedStreaming last only; a job that has returned has sent nothing (empty
\* message) or has sent StoppedStreaming last, whether the request failed, a
\* chunk failed or the stream ended; is_streaming is set after the actions a
\* running job has sent are reduced and clear after those of a returned job
\* are.
C29_NewMessageProtocol ==
    stream.feature = "conversation"
        => LET out == stream.out
           IN  /\ \A i \in 1..Len(out) : Phase(out[i], i) # 0
               /\ \A i, j \in 1..Len(out) :
                     i < j => Phase(out[i], i) <= Phase(out[j], j)
               /\ \A i \in 1..Len(out) :
                     /\ Phase(out[i], i) = 1 <=> i = 1
                     /\ Phase(out[i], i) = 2 <=> i = 2
                     /\ Phase(out[i], i) = 6
                           => i = Len(out) /\ stream.at = "done"
               /\ stream.at \in {"request", "chunks"}
                     => Len(out) >= 2 /\ StreamingAfter(FALSE, out)
               /\ stream.at = "done"
                     => /\ out # <<>> => out[Len(out)] = <<"StoppedStreaming">>
                        /\ stream.failure # "" => out # <<>>
                        /\ ~StreamingAfter(FALSE, out)

\* C29, its case: a NewMessage job has returned on a chunk error after two
\* chunks: it has sent BeganStreaming, CommitMessage, two UpdatePartial, the
\* final CommitMessage, ScheduleTooltip and StoppedStreaming.
C29_Witness ==
    /\ stream.feature = "conversation"
    /\ stream.at = "done"
    /\ stream.failure = "chunk"
    /\ stream.chunks = 2
    /\ Len(stream.out) = 7
    /\ stream.out[7] = <<"StoppedStreaming">>
    /\ ~StreamingAfter(FALSE, stream.out)

\* C31: a ScrollViewDimentionsChanged reduced with the dimensions already
\* stored leaves State as it was and queues no RedrawUI; the reductions of
\* ScrollViewDimentionsChanged have queued at most one RedrawUI, plus one for
\* each time the rendered dimensions changed; and when the queue is empty the
\* stored dimensions are the rendered ones, so ui sends nothing more.
C31_DimentionsIdempotent ==
    view.feature = "scroll"
        => /\ (/\ view.last.action # <<>>
               /\ view.last.action[1] = "ScrollViewDimentionsChanged"
               /\ view.last.action[2] = view.last.before.scroll_view_dimentions)
                  => view.last.after = view.last.before /\ ~view.last.redraw
           /\ view.extra <= 1 + view.resizes
           /\ view.queue = <<>>
                 => view.state.scroll_view_dimentions = view.rendered

\* C31, its case: two redraws in a row have sent the same dimensions; the
\* first was stored and queued the one extra RedrawUI, the second was reduced
\* after the offset had been moved and has left State, offset included, as it
\* was.
C31_Witness ==
    /\ view.feature = "scroll"
    /\ view.last.action = <<"ScrollViewDimentionsChanged", view.rendered>>
    /\ view.last.before.scroll_view_dimentions = view.rendered
    /\ view.last.before.offset
          # ensure_within_bounds(view.rendered, Bottom)
    /\ view.last.after = view.last.before
    /\ view.extra = 1
    /\ view.queue = << <<"RedrawUI">> >>

\* C32: for a list of any length, whatever keys were pressed: the selection
\* is None or an index below items.len(); no index computation has
\* overflowed and nothing has panicked; 'j' on the last item and 'k' on the
\* first have left the selection as it was; and the index delegated by Enter
\* or Space is below items.len().
C32_SelectionValid ==
    view.feature = "list"
        => /\ view.state.selected = NoIndex
                 \/ (0 <= view.state.selected
                        /\ view.state.selected < view.state.items)
           /\ ~view.underflow
           /\ ~view.panicked
           /\ (view.last.code = "j" /\ view.last.before # NoIndex
                  /\ view.last.before = view.state.items - 1)
                 => view.state.selected = view.last.before
           /\ (view.last.code = "k" /\ view.last.before = 0)
                 => view.state.selected = 0
           /\ DelegatesIndex(view.last.effect)
                 => view.last.effect.action[3] < view.state.items

\* the last action was List(Delegated(Enter(idx)))
LastEnter == view.last.action # <<>> /\ view.last.action[1] = "List" /\ view.last.action[3] = "Enter"

\* C33: once an UpdateList has been reduced, the first entry of conversations
\* is NewMessage and every other entry is an Item; right after an UpdateList
\* nothing is selected; Enter(0) is answered with NewConversation and, after
\* an UpdateList, Enter(idx) with idx > 0 finds an Item; the panic of the
\* NewMessage arm is never reached
C33_NewMessageFirst ==
    view.feature = "conversation_list"
        => /\ view.updated
                => /\ Len(view.conversations.items) >= 1
                   /\ view.conversations.items[1] = NewMessage
                   /\ \A i \in 2..Len(view.conversations.items) :
                         view.conversations.items[i] # NewMessage
           /\ view.last.action = <<"UpdateList">>
                => view.conversations.selected = NoIndex
           /\ view.panicked # "filtered"
           /\ (LastEnter /\ view.last.action[4] = 0)
                => view.last.outcome = "NewConversation"
           /\ (LastEnter /\ view.last.action[4] > 0 /\ view.updated)
                => view.last.outcome \in {"Select", "None"} /\ view.panicked = ""

C33_Witness ==
    /\ view.feature = "conversation_list"
    /\ view.updated
    /\ LastEnter
    /\ view.last.action[4] = 2
    /\ view.last.outcome = "Select"
    /\ view.reloads = 2

\* the largest row that addresses a line, 0 when there is no line
LastRow(st) == SaturatingSub(total_lines(st), 1)

\* C34: in the conversation feature cursor.row is at most total_lines - 1
\* when there are lines and 0 when there are none, whatever Move,
\* CommitMessage and UpdatePartial actions the keys and the jobs of
\* NewMessage lead to; Up and UpMore on row 0 leave the row 0, Down and
\* DownMore on the last line leave the row on the last line
C34_CursorRowInRange ==
    /\ [](view.feature = "conversation"
            => view.state.cursor.row <= LastRow(view.state))
    /\ [][view.feature = "conversation"
            => /\ \A code \in {"k", "ctrl-u"} :
                     ConversationKeyPressed(code, TRUE)
                        => /\ view'.state.cursor.row <= view.state.cursor.row
                           /\ view.state.cursor.row = 0
                                => view'.state.cursor.row = 0
               /\ \A code \in {"j", "ctrl-d"} :
                     ConversationKeyPressed(code, TRUE)
                        => /\ view'.state.cursor.row >= view.state.cursor.row
                           /\ view.state.cursor.row = LastRow(view.state)
                                => view'.state.cursor.row = LastRow(view.state)]_vars

C34_Witness ==
    /\ view.feature = "conversation"
    /\ view.state.partial # <<>>
    /\ view.state.history # <<>>
    /\ total_lines(view.state) >= 2
    /\ Len(Flatten(view.state.partial)) >= 1
    /\ view.state.cursor.row = total_lines(view.state) - 1

\* the cursor as the selection compares it: the row alone for Selection::Line
SelectionCursor(st) ==
    IF st.selection.kind = "Line" THEN CursorPosition(st.cursor.row, 0)
    ELSE st.cursor

\* min(anchor, cursor)..=max(anchor, cursor)
SpannedRange(st) ==
    IF PositionLess(SelectionCursor(st), st.selection.start)
    THEN [lo |-> SelectionCursor(st), hi |-> st.selection.start]
    ELSE [lo |-> st.selection.start, hi |-> SelectionCursor(st)]

\* CommitMessage is reduced
CommitStep == ConversationCommitUser \/ ConversationCommit

\* C35: after every move the range of an active selection spans from the
\* smaller to the larger of the anchor and the cursor; 'v' or 'V' without a
\* selection sets the anchor to the cursor; the anchor and the kind stay as
\* they are while the selection stays active; CommitMessage, 'v' or 'V' with
\* a selection, and 'y' with a selection clear the selection
C35_SelectionSpansAnchorToCursor ==
    [][view.feature = "conversation"
        => /\ \A code \in MoveKeys :
                 (/\ ConversationKeyPressed(code, TRUE)
                  /\ view.state.selection # NoSelection)
                    => /\ view'.state.selection # NoSelection
                       /\ view'.state.selection.range = SpannedRange(view'.state)
           /\ \A code \in {"v", "V"} :
                 (/\ ConversationKeyPressed(code, TRUE)
                  /\ view.state.selection = NoSelection)
                    => /\ view'.state.selection # NoSelection
                       /\ view'.state.selection.start
                             = SelectionCursor(view'.state)
                       /\ view'.state.cursor = view.state.cursor
           /\ (/\ view.state.selection # NoSelection
               /\ view'.state.selection # NoSelection)
                => /\ view'.state.selection.start = view.state.selection.start
                   /\ view'.state.selection.kind = view.state.selection.kind
           /\ CommitStep => view'.state.selection = NoSelection
           /\ \A code \in SelectionKeys :
                 (/\ ConversationKeyPressed(code, TRUE)
                  /\ view.state.selection # NoSelection)
                    => view'.state.selection = NoSelection]_vars

C35_Witness ==
    /\ view.feature = "conversation"
    /\ view.state.selection.kind = "Char"
    /\ view.state.selection.start.row = 1
    /\ view.state.cursor.row = 0
    /\ view.state.selection.range = [lo |-> view.state.cursor,
                                     hi |-> view.state.selection.start]

\* before is a prefix of after
IsPrefix(before, after) ==
    /\ Len(before) <= Len(after)
    /\ \A i \in 1..Len(before) : after[i] = before[i]

\* C36: in the conversation and in the chat feature every step leaves the
\* entries of history where they were; CommitMessage appends one entry, the
\* message it carries, and empties partial; UpdatePartial leaves history as
\* it is and makes partial the messages it carries; no other action changes
\* history or partial
C36_HistoryAppendOnly ==
    [][view.feature = "conversation"
        => \A st \in {<< view.state, view'.state >>, << view.chat, view'.chat >>} :
              /\ IsPrefix(st[1].history, st[2].history)
              /\ CommitStep
                    => /\ Len(st[2].history) = Len(st[1].history) + 1
                       /\ st[2].history[Len(st[2].history)].original
                             = Head(IF view.job = "began" THEN << UserMessage >>
                                    ELSE view.output)
                       /\ st[2].partial = <<>>
              /\ ConversationChunk
                    => /\ st[2].history = st[1].history
                       /\ Len(st[2].partial) = Len(view'.output)
                       /\ \A i \in 1..Len(view'.output) :
                             st[2].partial[i].original = view'.output[i]
              /\ ~(CommitStep \/ ConversationChunk)
                    => /\ st[2].history = st[1].history
                       /\ st[2].partial = st[1].partial]_vars

C36_Witness ==
    /\ view.feature = "conversation"
    /\ view.job = "idle"
    /\ Len(view.state.history) = 2
    /\ view.state.history[2].original = << "x" >>
    /\ view.state.history[2].display # PlainLines(<< "x" >>)
    /\ view.state.partial = <<>>
    /\ Len(view.chat.history) = 3
    /\ view.chat.partial = <<>>

\* C37: once the chain of an input event is done, the textarea of the
\* single-line input holds at most one line
C37_AtMostOneLine ==
    (view.feature = "single_line_input" /\ view.pending = EffectNone)
        => Len(view.state.textarea.lines) <= 1

\* the event of the last store.send
SentEvent == view.store.reduced[1][2]

\* the last store.send handed the event on to the text field
Forwarded ==
    \E i \in 1..Len(view.store.reduced) :
        view.store.reduced[i] = <<"TextField", "Event", SentEvent>>

\* C38 as stated: quit is set only by 'y' or 'q' pressed on the Exiting
\* screen; on the Main screen every key event is forwarded to the text field
\* and quit stays unset; 'n' on Exiting returns to Main; quit is never reset
C38_QuitOnlyWhenExitingAsStated ==
    /\ []((view.feature = "legacy" /\ view.store.reduced # <<>>)
            => /\ view.store.quit
                    => /\ view.screen = "Exiting"
                       /\ SentEvent.type = "Key"
                       /\ SentEvent.code \in {"y", "q"}
               /\ (view.screen = "Main" /\ SentEvent.type = "Key")
                    => Forwarded /\ ~view.store.quit
               /\ (/\ view.screen = "Exiting"
                   /\ SentEvent.type = "Key"
                   /\ SentEvent.kind # "Release"
                   /\ SentEvent.code = "n")
                    => view.store.state.current_screen = "Main")
    /\ [][view.feature = "legacy"
            => (view.store.quit => view'.store.quit)]_vars

\* C38: quit is set only by a 'y' or 'q' key event of a kind other than
\* Release sent on the Exiting screen; on the Main screen every key event of
\* a kind other than Release is forwarded to the text field and quit stays
\* unset; a Release key event and an event that is no key event reach
\* nothing but the first reducer call and change nothing; 'n' on Exiting
\* returns to Main; quit is never reset
C38_QuitOnlyWhenExiting ==
    /\ []((view.feature = "legacy" /\ view.store.reduced # <<>>)
            => /\ view.store.quit
                    => /\ view.screen = "Exiting"
                       /\ SentEvent.type = "Key"
                       /\ SentEvent.kind # "Release"
                       /\ SentEvent.code \in {"y", "q"}
               /\ (/\ view.screen = "Main"
                   /\ SentEvent.type = "Key"
                   /\ SentEvent.kind # "Release")
                    => Forwarded /\ ~view.store.quit
               /\ (SentEvent.type # "Key" \/ SentEvent.kind = "Release")
                    => /\ Len(view.store.reduced) = 1
                       /\ view.store.state.current_screen = view.screen
                       /\ ~view.store.quit
               /\ (/\ view.screen = "Exiting"
                   /\ SentEvent.type = "Key"
                   /\ SentEvent.kind # "Release"
                   /\ SentEvent.code = "n")
                    => view.store.state.current_screen = "Main")
    /\ [][view.feature = "legacy"
            => (view.store.quit => view'.store.quit)]_vars

C38_Witness ==
    /\ view.feature = "legacy"
    /\ view.pc = "done"
    /\ view.store.quit
    /\ view.screen = "Exiting"
    /\ SentEvent = Key("y", "Press", FALSE)
    /\ view.events = 2

=============================================================================
